---------------------------- MODULE Spec2Model ----------------------------
(***************************************************************************)
(* Model of the affiliation parser of scopus_to_wos_converter.py           *)
(* (ScopusToWosConverter.parse_affiliations and the helpers it calls).     *)
(* Python strings are TLA+ strings (sequences of characters); the string   *)
(* methods and regular expressions the code uses are operators on them.    *)
(***************************************************************************)
EXTENDS Integers, Sequences, FiniteSets, TLC

(***************************************************************************)
(* Python str primitives                                                   *)
(***************************************************************************)
CharAt(s, i) == SubSeq(s, i, i)

UpperChars == "ABCDEFGHIJKLMNOPQRSTUVWXYZÀ"
LowerChars == "abcdefghijklmnopqrstuvwxyzà"
DigitChars == "0123456789_"

\* characters in code-point order (the order Python compares strings by)
CodePoints == " &'-.0123456789;ABCDEFGHIJKLMNOPQRSTUVWXYZ[]_abcdefghijklmnopqrstuvwxyzÀàä"

CharSet(s) == {CharAt(s, i) : i \in 1..Len(s)}

LowerTable ==
  [c \in CharSet(UpperChars) |->
     CharAt(LowerChars, CHOOSE i \in 1..Len(UpperChars) : CharAt(UpperChars, i) = c)]

OrdTable ==
  [c \in CharSet(CodePoints) |->
     CHOOSE i \in 1..Len(CodePoints) : CharAt(CodePoints, i) = c]

WordCharSet == CharSet(UpperChars) \cup CharSet(LowerChars) \cup CharSet(DigitChars) \cup {"ä"}

IsSpace(c) == c \in {" ", "\t", "\n", "\r"}
IsWordChar(c) == c \in WordCharSet

LowerChar(c) == IF c \in DOMAIN LowerTable THEN LowerTable[c] ELSE c

\* the least element of a non-empty set of integers
SetMin(S) == CHOOSE x \in S : \A y \in S : x <= y

\* str.lower()
RECURSIVE LowerRange(_, _, _)
LowerRange(s, lo, hi) ==
  IF lo > hi THEN ""
  ELSE IF lo = hi THEN LowerChar(CharAt(s, lo))
  ELSE LET mid == (lo + hi) \div 2
       IN LowerRange(s, lo, mid) \o LowerRange(s, mid + 1, hi)
Lower(s) == LowerRange(s, 1, Len(s))

\* str.strip()
Strip(s) ==
  LET keep == {i \in 1..Len(s) : ~IsSpace(CharAt(s, i))}
  IN IF keep = {} THEN "" ELSE SubSeq(s, SetMin(keep), -SetMin({-i : i \in keep}))

\* str.rstrip('.')
RStripDot(s) ==
  LET keep == {i \in 1..Len(s) : CharAt(s, i) # "."}
  IN IF keep = {} THEN "" ELSE SubSeq(s, 1, -SetMin({-i : i \in keep}))

\* str.split(sep) for a one-character separator
RECURSIVE SplitFrom(_, _, _)
SplitFrom(s, sep, start) ==
  LET at == {i \in start..Len(s) : CharAt(s, i) = sep}
  IN IF at = {} THEN << SubSeq(s, start, Len(s)) >>
     ELSE << SubSeq(s, start, SetMin(at) - 1) >> \o SplitFrom(s, sep, SetMin(at) + 1)
Split(s, sep) == SplitFrom(s, sep, 1)

\* [p.strip() for p in s.split(sep)]
SplitStrip(s, sep) ==
  LET raw == Split(s, sep) IN [k \in 1..Len(raw) |-> Strip(raw[k])]

\* sep.join(parts)
RECURSIVE JoinFrom(_, _, _)
JoinFrom(parts, sep, k) ==
  IF k > Len(parts) THEN ""
  ELSE IF k = Len(parts) THEN parts[k]
  ELSE parts[k] \o sep \o JoinFrom(parts, sep, k + 1)
Join(parts, sep) == JoinFrom(parts, sep, 1)

\* sub in s
StartsAt(s, sub, i) ==
  /\ i + Len(sub) - 1 <= Len(s)
  /\ SubSeq(s, i, i + Len(sub) - 1) = sub
Contains(s, sub) == \E i \in 1..(Len(s) - Len(sub) + 1) : StartsAt(s, sub, i)

\* len(s.split()): the number of whitespace-separated words
WordCount(s) ==
  Cardinality({i \in 1..Len(s) :
                 /\ ~IsSpace(CharAt(s, i))
                 /\ (i = 1 \/ IsSpace(CharAt(s, i - 1)))})

\* a < b for Python strings
StrLess(a, b) ==
  LET diff == {i \in 1..Len(a) : i > Len(b) \/ CharAt(a, i) # CharAt(b, i)}
  IN IF diff = {} THEN Len(a) < Len(b)
     ELSE /\ SetMin(diff) <= Len(b)
          /\ OrdTable[CharAt(a, SetMin(diff))] < OrdTable[CharAt(b, SetMin(diff))]

(***************************************************************************)
(* re.sub(pattern, repl, s): the matches are taken leftmost first, never   *)
(* overlapping.  ms is the set of <<start, length>> of the pattern's match *)
(* at every start position of s where it has one.                          *)
(***************************************************************************)
RECURSIVE ReSubFrom(_, _, _, _)
ReSubFrom(s, ms, repl, i) ==
  LET at == {m \in ms : m[1] >= i}
  IN IF at = {} THEN SubSeq(s, i, Len(s))
     ELSE LET m == CHOOSE m \in at : \A o \in at : m[1] <= o[1]
          IN SubSeq(s, i, m[1] - 1) \o repl \o ReSubFrom(s, ms, repl, m[1] + m[2])
ReSub(s, ms, repl) == ReSubFrom(s, ms, repl, 1)

\* s.replace(old, new)
Replace(s, old, new) ==
  ReSub(s, {<<j, Len(old)>> : j \in {j \in 1..Len(s) : StartsAt(s, old, j)}}, new)

\* the length of the whitespace run starting at i
SpaceRun(s, i) ==
  LET stop == {j \in i..Len(s) : ~IsSpace(CharAt(s, j))}
  IN IF i > Len(s) THEN 0
     ELSE IF stop = {} THEN Len(s) - i + 1 ELSE SetMin(stop) - i

\* r'\b' + re.escape(full) + r'\b' with re.IGNORECASE, where full starts and ends
\* with a word character; ls is s.lower()
WordMatchesIn(s, ls, lfull) ==
  {<<j, Len(lfull)>> : j \in
     {j \in 1..(Len(s) - Len(lfull) + 1) :
        /\ SubSeq(ls, j, j + Len(lfull) - 1) = lfull
        /\ (j = 1 \/ ~IsWordChar(CharAt(s, j - 1)))
        /\ (j + Len(lfull) > Len(s) \/ ~IsWordChar(CharAt(s, j + Len(lfull))))}}
WordMatches(full, s) == WordMatchesIn(s, Lower(s), Lower(full))

\* r'\s+' + re.escape(prep) + r'\s+' with re.IGNORECASE; ls is s.lower()
SpacedMatchAt(s, ls, lprep, j, a) ==
  IF /\ j + a + Len(lprep) - 1 <= Len(s)
     /\ SubSeq(ls, j + a, j + a + Len(lprep) - 1) = lprep
     /\ SpaceRun(s, j + a + Len(lprep)) > 0
  THEN a + Len(lprep) + SpaceRun(s, j + a + Len(lprep)) ELSE 0
SpacedMatchesIn(s, ls, lprep) ==
  {<<j, SpacedMatchAt(s, ls, lprep, j, SpaceRun(s, j))>> : j \in
     {j \in 1..Len(s) :
        IsSpace(CharAt(s, j)) /\ SpacedMatchAt(s, ls, lprep, j, SpaceRun(s, j)) > 0}}
SpacedMatches(prep, s) == SpacedMatchesIn(s, Lower(s), Lower(prep))

\* r'\s+'
SpacesMatches(s) ==
  {<<j, SpaceRun(s, j)>> : j \in {j \in 1..Len(s) : IsSpace(CharAt(s, j))}}

\* r',\s*,'
CommaCommaMatches(s) ==
  {<<j, SpaceRun(s, j + 1) + 2>> : j \in
     {j \in 1..Len(s) :
        /\ CharAt(s, j) = ","
        /\ j + 1 + SpaceRun(s, j + 1) <= Len(s)
        /\ CharAt(s, j + 1 + SpaceRun(s, j + 1)) = ","}}

\* r'\s*,\s*'
CommaSpacesLen(s, j, a) ==
  IF j + a <= Len(s) /\ CharAt(s, j + a) = "," THEN a + 1 + SpaceRun(s, j + a + 1) ELSE 0
CommaSpacesMatches(s) ==
  {<<j, CommaSpacesLen(s, j, SpaceRun(s, j))>> : j \in
     {j \in 1..Len(s) :
        /\ IsSpace(CharAt(s, j)) \/ CharAt(s, j) = ","
        /\ CommaSpacesLen(s, j, SpaceRun(s, j)) > 0}}

(***************************************************************************)
(* State: the converter's configuration, the argument of the call, and the *)
(* locals of parse_affiliations as the call proceeds.                      *)
(***************************************************************************)
VARIABLES
  institution_config,       \* self.institution_config
  affil_str,                \* the argument of parse_affiliations
  pc,                       \* position in parse_affiliations
  author_blocks,            \* the entries of affil_str, split at ';' and stripped
  idx,                      \* the index of the next entry of "for block in author_blocks"
  entries,                  \* the locals of every iteration that passed the length check
  author_institutions,      \* List[(author, institution)]
  institution_to_authors,   \* the dict, as its items in insertion order
  converted,                \* the returned list of lines
  arg_name,                 \* _is_independent_college_or_school: the part in question
  arg_all_parts,            \* _is_independent_college_or_school: the parts of the institution
  is_independent,           \* _is_independent_college_or_school: the returned bool
  primary_institutions,     \* extract_primary_institutions: the set of cleaned names
  primary_insts,            \* convert_record: the list extract_primary_institutions returned
  earlier_runs,             \* what the earlier runs on the same input returned
  wos_records,              \* MergeDeduplicateTool.wos_records
  scopus_records,           \* MergeDeduplicateTool.scopus_records
  wos_idx,                  \* find_wos_scopus_duplicates: index of the next WOS record
  wos_scopus_pairs,         \* run: the (wos_idx, scopus_idx) pairs
  scopus_matched,           \* find_wos_scopus_duplicates: the matched Scopus indices
  final_records,            \* MergeDeduplicateTool.final_records
  institution_str,          \* reorder_institution_parts: the argument institution
  kept_parts,               \* reorder_institution_parts: parts, after the geography is removed
  primary_list,             \* reorder_institution_parts: primary_parts
  secondary_list,           \* reorder_institution_parts: secondary_parts
  geo_list,                 \* reorder_institution_parts: geo_parts
  resolver_asked,           \* the parts passed to _is_independent_college_or_school
  reordered_str,            \* reorder_institution_parts: the returned string
  last_request_time,        \* RateLimiter.last_request_time
  lock,                     \* RateLimiter.lock: 0 when free, else the thread holding it
  clock,                    \* what time.time() returns
  thread_pc,                \* the position of every thread in acquire
  current_time,             \* acquire: the local current_time of every thread
  wake_time,                \* the time before which time.sleep does not return
  grants,                   \* the values assigned to last_request_time, in order
  returns                   \* the times at which the calls of acquire returned, in order

\* _load_institution_config: "abbreviations" of the default configuration, in dict order
DefaultAbbreviations ==
  << <<"Department", "Dept">>, <<"University", "Univ">>, <<"Università", "Univ">>,
     <<"Fondazione", "Fdn">>, <<"Institute", "Inst">>, <<"Istituto", "Inst">>,
     <<"Hospital", "Hosp">>, <<"Ospedale", "Hosp">>, <<"Center", "Ctr">>,
     <<"Centre", "Ctr">>, <<"Laboratory", "Lab">>, <<"Research", "Res">>,
     <<"Science", "Sci">>, <<"Sciences", "Sci">>, <<"Technology", "Technol">>,
     <<"Medicine", "Med">>, <<"Medical", "Med">>, <<"Clinical", "Clin">>,
     <<"Pharmacy", "Pharm">>, <<"degli Studi di", "">>, <<"and", "&">> >>

DefaultConfig ==
  [independent_colleges |-> << >>,
   independent_schools  |-> << >>,
   abbreviations        |-> DefaultAbbreviations]

(***************************************************************************)
(* standardize_country                                                     *)
(***************************************************************************)
country_mapping ==
  << <<"United States", "USA">>, <<"United Kingdom", "England">>,
     <<"China", "Peoples R China">>, <<"Korea", "South Korea">>,
     <<"Turkey", "Turkiye">>, <<"Russia", "Russia">>, <<"Iran", "Iran">>,
     <<"Vietnam", "Vietnam">>, <<"Czech Republic", "Czech Republic">>,
     <<"Taiwan", "Taiwan">> >>

\* for scopus_name, wos_name in country_mapping.items(): if scopus_name in last_part: replace; break
RECURSIVE MapCountryFrom(_, _)
MapCountryFrom(last_part, k) ==
  IF k > Len(country_mapping) THEN last_part
  ELSE IF Contains(last_part, country_mapping[k][1])
       THEN Replace(last_part, country_mapping[k][1], country_mapping[k][2])
       ELSE MapCountryFrom(last_part, k + 1)

standardize_country(institution) ==
  LET parts == SplitStrip(institution, ",")
      n     == Len(parts)
  IN Join([k \in 1..n |-> IF k = n THEN MapCountryFrom(parts[n], 1) ELSE parts[k]], ", ")

(***************************************************************************)
(* _is_independent_college_or_school                                       *)
(***************************************************************************)
professional_indicators ==
  << "medical", "medicine", "pharmacy", "law", "business",
     "engineering", "public health", "hygiene", "economics",
     "tropical", "veterinary", "dental", "nursing" >>

\* any(kw.lower() in text_lower for kw in keywords)
LowerAll(keywords) == [k \in 1..Len(keywords) |-> Lower(keywords[k])]
ContainsAny(text_lower, keywords_lower) ==
  \E k \in 1..Len(keywords_lower) : Contains(text_lower, keywords_lower[k])

\* 'university' in p.lower() or 'università' in p.lower() or 'universit' in p.lower()
MentionsUniversity(p_lower) ==
  \/ Contains(p_lower, "university")
  \/ Contains(p_lower, "università")
  \/ Contains(p_lower, "universit")

\* the resolver with the professional-school test placed before the university test
is_independent_ProfessionalFirst(name, all_parts) ==
  LET name_lower == Lower(name)
  IN IF ContainsAny(name_lower, LowerAll(institution_config.independent_colleges)) THEN TRUE
     ELSE IF ContainsAny(name_lower, LowerAll(institution_config.independent_schools)) THEN TRUE
     ELSE IF Contains(name_lower, "school") /\ ContainsAny(name_lower, professional_indicators)
          THEN TRUE
     ELSE FALSE

\* the resolver with the university test placed before the whitelists
is_independent_UniversityFirst(name, all_parts) ==
  LET name_lower == Lower(name)
  IN IF \E k \in 1..Len(all_parts) :
          all_parts[k] # name /\ MentionsUniversity(Lower(all_parts[k]))
     THEN FALSE
     ELSE \/ ContainsAny(name_lower, LowerAll(institution_config.independent_colleges))
          \/ ContainsAny(name_lower, LowerAll(institution_config.independent_schools))
          \/ Contains(name_lower, "school") /\ ContainsAny(name_lower, professional_indicators)

\* the resolver that takes every college name of two or more words for independent
is_independent_AnyCollegeName(name, all_parts) ==
  LET name_lower == Lower(name)
  IN IF ContainsAny(name_lower, LowerAll(institution_config.independent_colleges)) THEN TRUE
     ELSE IF ContainsAny(name_lower, LowerAll(institution_config.independent_schools)) THEN TRUE
     ELSE IF \E k \in 1..Len(all_parts) :
               all_parts[k] # name /\ MentionsUniversity(Lower(all_parts[k]))
          THEN FALSE
     ELSE IF Contains(name_lower, "school") /\ ContainsAny(name_lower, professional_indicators)
          THEN TRUE
     ELSE Contains(name_lower, "college") /\ WordCount(name) >= 2

is_independent_college_or_school(name, all_parts) ==
  LET name_lower == Lower(name)
      has_university ==
        \E k \in 1..Len(all_parts) :
          /\ all_parts[k] # name
          /\ MentionsUniversity(Lower(all_parts[k]))
  IN IF ContainsAny(name_lower, LowerAll(institution_config.independent_colleges)) THEN TRUE
     ELSE IF ContainsAny(name_lower, LowerAll(institution_config.independent_schools)) THEN TRUE
     ELSE IF has_university THEN FALSE
     ELSE IF Contains(name_lower, "school") /\ ContainsAny(name_lower, professional_indicators)
          THEN TRUE
     ELSE IF Contains(name_lower, "college of") THEN FALSE
     ELSE IF /\ Contains(name_lower, "college")
             /\ ~Contains(name_lower, "of")
             /\ WordCount(name) >= 2
          THEN TRUE
     ELSE FALSE

(***************************************************************************)
(* reorder_institution_parts                                               *)
(***************************************************************************)
primary_keywords ==
  << "University", "Università", "Universität", "Universit", "Univ",
     "Hospital", "Ospedale", "Hosp",
     "Institute", "Istituto", "Institut",
     "Foundation", "Fondazione", "Fdn",
     "IRCCS", "Policlinico", "Clinic",
     "Center", "Centre", "Centro", "Academy", "Accademia" >>

secondary_keywords ==
  << "Department of", "Dipartimento di", "Dept of", "Dept.",
     "Division of", "Divisione di", "Div of",
     "Unit of", "Unità di",
     "Laboratory of", "Laboratorio di",
     "Service", "Servizio",
     "Section of", "Sezione di" >>

primary_keywords_lower == LowerAll(primary_keywords)
secondary_keywords_lower == LowerAll(secondary_keywords)

\* the test made of last_part and of second_last (without the truthiness of second_last)
NoOrganisationWord(part_lower) ==
  /\ ~ContainsAny(part_lower, primary_keywords_lower \o secondary_keywords_lower)
  /\ ~Contains(part_lower, "college")
  /\ ~Contains(part_lower, "school")
LooksGeographic(part) == NoOrganisationWord(Lower(part))

\* the variant that tests the primary keywords before the college/school terms
PartRoleOf_PrimaryKeywordFirst(part, part_lower, parts) ==
  IF ContainsAny(part_lower, secondary_keywords_lower) THEN "secondary"
  ELSE IF ContainsAny(part_lower, primary_keywords_lower) THEN "primary"
  ELSE IF Contains(part_lower, "school") \/ Contains(part_lower, "college")
       THEN IF is_independent_college_or_school(part, parts)
            THEN "primary" ELSE "secondary"
  ELSE "primary"

\* the variant that asks the resolver before it tests the secondary keywords
PartRoleOf_ResolverFirst(part, part_lower, parts) ==
  IF Contains(part_lower, "school") \/ Contains(part_lower, "college")
  THEN IF is_independent_college_or_school(part, parts)
       THEN "primary" ELSE "secondary"
  ELSE IF ContainsAny(part_lower, secondary_keywords_lower) THEN "secondary"
  ELSE "primary"

\* the variant whose fallback is the secondary list
PartRoleOf_SecondaryFallback(part, part_lower, parts) ==
  IF ContainsAny(part_lower, secondary_keywords_lower) THEN "secondary"
  ELSE IF Contains(part_lower, "school") \/ Contains(part_lower, "college")
       THEN IF is_independent_college_or_school(part, parts)
            THEN "primary" ELSE "secondary"
  ELSE IF ContainsAny(part_lower, primary_keywords_lower) THEN "primary"
  ELSE "secondary"

\* one iteration of "for part in parts": the list the part is appended to
PartRoleOf(part, part_lower, parts) ==
  IF ContainsAny(part_lower, secondary_keywords_lower) THEN "secondary"
  ELSE IF Contains(part_lower, "school") \/ Contains(part_lower, "college")
       THEN IF is_independent_college_or_school(part, parts)
            THEN "primary" ELSE "secondary"
  ELSE IF ContainsAny(part_lower, primary_keywords_lower) THEN "primary"
  ELSE "primary"
PartRole(part, parts) == PartRoleOf(part, Lower(part), parts)

\* the loop with the "continue" after secondary_parts.append(part) left out
RECURSIVE ClassifyFrom_NoContinue(_, _, _, _)
ClassifyFrom_NoContinue(parts, k, primary_parts, secondary_parts) ==
  IF k > Len(parts)
  THEN [primary_parts |-> primary_parts, secondary_parts |-> secondary_parts]
  ELSE IF ContainsAny(Lower(parts[k]), secondary_keywords_lower)
       THEN ClassifyFrom_NoContinue(parts, k + 1, Append(primary_parts, parts[k]),
                                    Append(secondary_parts, parts[k]))
       ELSE IF PartRole(parts[k], parts) = "secondary"
            THEN ClassifyFrom_NoContinue(parts, k + 1, primary_parts,
                                         Append(secondary_parts, parts[k]))
            ELSE ClassifyFrom_NoContinue(parts, k + 1, Append(primary_parts, parts[k]),
                                         secondary_parts)

\* the loop "for part in parts", from index k, with the lists built so far
RECURSIVE ClassifyFrom(_, _, _, _)
ClassifyFrom(parts, k, primary_parts, secondary_parts) ==
  IF k > Len(parts)
  THEN [primary_parts |-> primary_parts, secondary_parts |-> secondary_parts]
  ELSE IF PartRole(parts[k], parts) = "secondary"
       THEN ClassifyFrom(parts, k + 1, primary_parts, Append(secondary_parts, parts[k]))
       ELSE ClassifyFrom(parts, k + 1, Append(primary_parts, parts[k]), secondary_parts)

\* the tentative removal of the trailing geography: [parts, geo_parts]
SplitGeo(parts0) ==
  LET n == Len(parts0)
      last_part == parts0[n]
      second_last == parts0[n - 1]
      is_last_geo == LooksGeographic(last_part)
      is_second_last_geo == second_last # "" /\ LooksGeographic(second_last)
  IN IF ~is_last_geo THEN [parts |-> parts0, geo_parts |-> << >>]
     ELSE IF is_second_last_geo /\ n - 1 >= 1
          THEN [parts |-> SubSeq(parts0, 1, n - 2), geo_parts |-> << second_last, last_part >>]
          ELSE [parts |-> SubSeq(parts0, 1, n - 1), geo_parts |-> << last_part >>]

\* the institution left in the order of the input
reorder_institution_parts_AsGiven(institution) == institution

reorder_institution_parts(institution) ==
  LET parts0 == SplitStrip(institution, ",")
  IN IF Len(parts0) < 2 THEN institution
     ELSE LET g == SplitGeo(parts0)
              c == ClassifyFrom(g.parts, 1, << >>, << >>)
          IN Join(c.primary_parts \o c.secondary_parts \o g.geo_parts, ", ")

(***************************************************************************)
(* abbreviate_institution                                                  *)
(***************************************************************************)
prepositions == << "of", "for", "the", "in", "at", "on" >>

\* for full, abbrev in abbrev_map.items(): re.sub(r'\b' + full + r'\b', abbrev, result, IGNORECASE)
RECURSIVE ApplyAbbreviations(_, _, _)
ApplyAbbreviations(result, abbrev_map, k) ==
  IF k > Len(abbrev_map) \/ result = "" THEN result
  ELSE ApplyAbbreviations(
         ReSub(result, WordMatches(abbrev_map[k][1], result), abbrev_map[k][2]),
         abbrev_map, k + 1)

\* for prep in prepositions: re.sub(r'\s+' + prep + r'\s+', ' ', result, IGNORECASE)
RECURSIVE StripPrepositions(_, _)
StripPrepositions(result, k) ==
  IF k > Len(prepositions) \/ result = "" THEN result
  ELSE StripPrepositions(ReSub(result, SpacedMatches(prepositions[k], result), " "), k + 1)

\* re.sub(r'\s+', ' ', result).strip(), then r',\s*,' -> ',' and r'\s*,\s*' -> ', '
CleanSeparators(result) ==
  LET r4 == Strip(ReSub(result, SpacesMatches(result), " "))
      r5 == ReSub(r4, CommaCommaMatches(r4), ",")
  IN ReSub(r5, CommaSpacesMatches(r5), ", ")

abbreviate_institution(institution) ==
  LET r1 == ApplyAbbreviations(institution, institution_config.abbreviations, 1)
      r2 == StripPrepositions(r1, 1)
      r3 == ReSub(r2, SpacedMatches("and", r2), " & ")
  IN CleanSeparators(r3)

\* the three steps parse_affiliations applies to every institution
Normalize(institution) ==
  standardize_country(abbreviate_institution(reorder_institution_parts(institution)))

(***************************************************************************)
(* parse_affiliations                                                      *)
(***************************************************************************)
countries ==
  << "USA", "United States", "United Kingdom", "England", "Scotland", "Wales",
     "China", "Peoples R China", "Japan", "Germany", "France", "Italy", "Spain",
     "Canada", "Australia", "India", "South Korea", "Brazil", "Russia",
     "Netherlands", "Switzerland", "Sweden", "Belgium", "Austria", "Poland",
     "Israel", "Palestine", "Argentina", "Mexico", "Turkey", "Turkiye",
     "South Africa", "Singapore", "Taiwan", "Hong Kong", "Ireland", "Denmark",
     "Norway", "Finland", "Greece", "Portugal", "Czech Republic", "Hungary",
     "Romania", "Chile", "Colombia", "Peru", "Iran", "Iraq", "Egypt" >>

countries_lower == LowerAll(countries)

\* the test without the limit on the number of words
IsCountryPartClean_AnyLength(part_clean) ==
  \E k \in 1..Len(countries_lower) : Lower(part_clean) = countries_lower[k]

\* the test that appends i to country_indices
IsCountryPartClean(part_clean) ==
  /\ WordCount(part_clean) <= 2
  /\ \E k \in 1..Len(countries_lower) : Lower(part_clean) = countries_lower[k]
IsCountryPart(part) == IsCountryPartClean(RStripDot(Strip(part)))

\* country_indices, as the increasing sequence of (1-based) indices
RECURSIVE CountryIndicesFrom(_, _)
CountryIndicesFrom(remaining_parts, i) ==
  IF i > Len(remaining_parts) THEN << >>
  ELSE (IF IsCountryPart(remaining_parts[i]) THEN << i >> ELSE << >>)
       \o CountryIndicesFrom(remaining_parts, i + 1)
CountryIndices(remaining_parts) == CountryIndicesFrom(remaining_parts, 1)

\* the loop without "start = country_idx + 1"
RECURSIVE SegmentFrom_NoRestart(_, _, _, _)
SegmentFrom_NoRestart(remaining_parts, country_indices, k, start) ==
  IF k > Len(country_indices) THEN << >>
  ELSE << SubSeq(remaining_parts, start, country_indices[k]) >>
       \o SegmentFrom_NoRestart(remaining_parts, country_indices, k + 1, start)

\* "for country_idx in country_indices": the inst_parts of every institution, from
\* the k-th country on, with start the (1-based) index the next institution starts at
RECURSIVE SegmentFrom(_, _, _, _)
SegmentFrom(remaining_parts, country_indices, k, start) ==
  IF k > Len(country_indices) THEN << >>
  ELSE LET inst_parts == SubSeq(remaining_parts, start, country_indices[k])
       IN (IF inst_parts # << >> THEN << inst_parts >> ELSE << >>)
          \o SegmentFrom(remaining_parts, country_indices, k + 1, country_indices[k] + 1)

\* the institutions of one entry, each as its list of parts
Segment(remaining_parts, country_indices) ==
  IF country_indices # << >>
  THEN SegmentFrom(remaining_parts, country_indices, 1, 1)
  ELSE << remaining_parts >>

\* "for institution in institutions": the three steps applied to one institution
ProcessShort(inst_parts, institution, inst_reordered, inst_short) ==
  [inst_parts     |-> inst_parts,
   institution    |-> institution,
   inst_reordered |-> inst_reordered,
   inst_short     |-> inst_short,
   inst_standard  |-> standardize_country(inst_short)]
ProcessReordered(inst_parts, institution, inst_reordered) ==
  ProcessShort(inst_parts, institution, inst_reordered, abbreviate_institution(inst_reordered))
ProcessInstitution(inst_parts) ==
  ProcessReordered(inst_parts, Join(inst_parts, ", "),
                   reorder_institution_parts(Join(inst_parts, ", ")))

\* one iteration of "for block in author_blocks" for a block of at least 3 parts
ParseEntryWith(parts, remaining_parts, country_indices, blocks) ==
  [author_full     |-> parts[1] \o ", " \o parts[2],
   remaining_parts |-> remaining_parts,
   country_indices |-> country_indices,
   institutions    |-> [k \in 1..Len(blocks) |-> ProcessInstitution(blocks[k])]]
ParseEntryParts(parts, remaining_parts, country_indices) ==
  ParseEntryWith(parts, remaining_parts, country_indices,
                 Segment(remaining_parts, country_indices))
ParseEntry(parts) ==
  ParseEntryParts(parts, SubSeq(parts, 3, Len(parts)),
                  CountryIndices(SubSeq(parts, 3, Len(parts))))

\* institution_to_authors after "for author_full, institution in author_institutions"
RECURSIVE GroupFrom(_, _, _)
GroupFrom(pairs, k, dict) ==
  IF k > Len(pairs) THEN dict
  ELSE LET author_full == pairs[k][1]
           institution == pairs[k][2]
           at == {j \in 1..Len(dict) : dict[j].institution = institution}
       IN IF at = {}
          THEN GroupFrom(pairs, k + 1,
                         Append(dict, [institution |-> institution,
                                       authors |-> << author_full >>]))
          ELSE LET j == CHOOSE j \in at : TRUE
               IN IF \E n \in 1..Len(dict[j].authors) : dict[j].authors[n] = author_full
                  THEN GroupFrom(pairs, k + 1, dict)
                  ELSE GroupFrom(pairs, k + 1,
                                 [dict EXCEPT ![j].authors = Append(@, author_full)])
\* the grouping with the append of a further author left out
RECURSIVE Group_KeepFirstAuthorFrom(_, _, _)
Group_KeepFirstAuthorFrom(pairs, k, dict) ==
  IF k > Len(pairs) THEN dict
  ELSE IF \E j \in 1..Len(dict) : dict[j].institution = pairs[k][2]
       THEN Group_KeepFirstAuthorFrom(pairs, k + 1, dict)
       ELSE Group_KeepFirstAuthorFrom(pairs, k + 1,
              Append(dict, [institution |-> pairs[k][2], authors |-> << pairs[k][1] >>]))
Group_KeepFirstAuthor(pairs) == Group_KeepFirstAuthorFrom(pairs, 1, << >>)

\* the grouping with the test "institution not in institution_to_authors" left out
Group_NoMerge(pairs) ==
  [k \in 1..Len(pairs) |-> [institution |-> pairs[k][2], authors |-> << pairs[k][1] >>]]

\* the grouping keyed by author: a pair is dropped when its author is already placed
RECURSIVE Group_OnePerAuthorFrom(_, _, _)
Group_OnePerAuthorFrom(pairs, k, dict) ==
  IF k > Len(pairs) THEN dict
  ELSE IF \E j \in 1..Len(dict) : \E n \in 1..Len(dict[j].authors) :
            dict[j].authors[n] = pairs[k][1]
       THEN Group_OnePerAuthorFrom(pairs, k + 1, dict)
       ELSE LET at == {j \in 1..Len(dict) : dict[j].institution = pairs[k][2]}
            IN IF at = {}
               THEN Group_OnePerAuthorFrom(pairs, k + 1,
                      Append(dict, [institution |-> pairs[k][2],
                                    authors |-> << pairs[k][1] >>]))
               ELSE Group_OnePerAuthorFrom(pairs, k + 1,
                      [dict EXCEPT ![CHOOSE j \in at : TRUE].authors = Append(@, pairs[k][1])])
Group_OnePerAuthor(pairs) == Group_OnePerAuthorFrom(pairs, 1, << >>)

Group(pairs) == GroupFrom(pairs, 1, << >>)

\* the author list left in insertion order
Sorted_AsInserted(authors) == authors

\* sorted(authors), for a list of distinct strings
Sorted(authors) ==
  LET names == {authors[n] : n \in 1..Len(authors)}
  IN [k \in 1..Len(authors) |->
        CHOOSE a \in names : Cardinality({b \in names : StrLess(b, a)}) = k - 1]

\* f"[{author_list}] {institution}."
FormatLine(item) ==
  "[" \o Join(Sorted(item.authors), "; ") \o "] " \o item.institution \o "."

\* the variables of the resolver call, of extract_primary_institutions and of the
\* merge tool, and their values while parse_affiliations runs
resolver_vars == << arg_name, arg_all_parts, is_independent >>
extract_vars == << primary_institutions, primary_insts, earlier_runs >>
merge_vars ==
  << wos_records, scopus_records, wos_idx, wos_scopus_pairs, scopus_matched, final_records >>

reorder_vars == << institution_str, kept_parts, primary_list, secondary_list, geo_list,
                   resolver_asked, reordered_str >>
limiter_vars == << last_request_time, lock, clock, thread_pc, current_time, wake_time,
                   grants, returns >>

ReorderIdle ==
  /\ institution_str = ""
  /\ kept_parts = << >>
  /\ primary_list = << >>
  /\ secondary_list = << >>
  /\ geo_list = << >>
  /\ resolver_asked = << >>
  /\ reordered_str = ""
LimiterIdle ==
  /\ last_request_time = 0
  /\ lock = 0
  /\ clock = 0
  /\ thread_pc = << >>
  /\ current_time = << >>
  /\ wake_time = << >>
  /\ grants = << >>
  /\ returns = << >>
ResolverIdle == arg_name = "" /\ arg_all_parts = << >> /\ is_independent = FALSE
ExtractIdle == primary_institutions = {} /\ primary_insts = << >> /\ earlier_runs = << >>
MergeIdle ==
  /\ wos_records = << >>
  /\ scopus_records = << >>
  /\ wos_idx = 1
  /\ wos_scopus_pairs = << >>
  /\ scopus_matched = {}
  /\ final_records = << >>

vars == << institution_config, affil_str, pc, author_blocks, idx, entries,
           author_institutions, institution_to_authors, converted,
           resolver_vars, extract_vars, merge_vars, reorder_vars, limiter_vars >>

\* if not affil_str: return []
ReturnEmpty ==
  /\ pc = "start"
  /\ affil_str = ""
  /\ converted' = << >>
  /\ pc' = "done"
  /\ UNCHANGED << reorder_vars, limiter_vars >>
  /\ UNCHANGED << institution_config, affil_str, author_blocks, idx, entries,
                  author_institutions, institution_to_authors >>
  /\ UNCHANGED << resolver_vars, extract_vars, merge_vars >>

\* author_blocks = [a.strip() for a in affil_str.split(';')]
SplitBlocks ==
  /\ pc = "start"
  /\ affil_str # ""
  /\ author_blocks' = SplitStrip(affil_str, ";")
  /\ idx' = 1
  /\ pc' = "blocks"
  /\ UNCHANGED << reorder_vars, limiter_vars >>
  /\ UNCHANGED << institution_config, affil_str, entries, author_institutions,
                  institution_to_authors, converted >>
  /\ UNCHANGED << resolver_vars, extract_vars, merge_vars >>

\* the skip written as "break": the loop ends at the first entry it skips
SkipBlock_Break ==
  /\ pc = "blocks"
  /\ idx <= Len(author_blocks)
  /\ \/ author_blocks[idx] = ""
     \/ Len(SplitStrip(author_blocks[idx], ",")) < 3
  /\ idx' = Len(author_blocks) + 1
  /\ UNCHANGED << reorder_vars, limiter_vars >>
  /\ UNCHANGED << institution_config, affil_str, pc, author_blocks, entries,
                  author_institutions, institution_to_authors, converted >>
  /\ UNCHANGED << resolver_vars, extract_vars, merge_vars >>

\* "if not block: continue" and "if len(parts) < 3: continue"
SkipBlock ==
  /\ pc = "blocks"
  /\ idx <= Len(author_blocks)
  /\ \/ author_blocks[idx] = ""
     \/ Len(SplitStrip(author_blocks[idx], ",")) < 3
  /\ idx' = idx + 1
  /\ UNCHANGED << reorder_vars, limiter_vars >>
  /\ UNCHANGED << institution_config, affil_str, pc, author_blocks, entries,
                  author_institutions, institution_to_authors, converted >>
  /\ UNCHANGED << resolver_vars, extract_vars, merge_vars >>

\* the rest of the loop body: segment, normalise, append the (author, institution) pairs
ParseBlock ==
  /\ pc = "blocks"
  /\ idx <= Len(author_blocks)
  /\ author_blocks[idx] # ""
  /\ Len(SplitStrip(author_blocks[idx], ",")) >= 3
  /\ LET e == ParseEntry(SplitStrip(author_blocks[idx], ","))
     IN /\ entries' = Append(entries, e)
        /\ author_institutions' =
             author_institutions \o
               [k \in 1..Len(e.institutions) |->
                  << e.author_full, e.institutions[k].inst_standard >>]
  /\ idx' = idx + 1
  /\ UNCHANGED << reorder_vars, limiter_vars >>
  /\ UNCHANGED << institution_config, affil_str, pc, author_blocks,
                  institution_to_authors, converted >>
  /\ UNCHANGED << resolver_vars, extract_vars, merge_vars >>

\* the grouping loop, after the last block
GroupAuthors ==
  /\ pc = "blocks"
  /\ idx > Len(author_blocks)
  /\ institution_to_authors' = Group(author_institutions)
  /\ pc' = "emit"
  /\ UNCHANGED << reorder_vars, limiter_vars >>
  /\ UNCHANGED << institution_config, affil_str, author_blocks, idx, entries,
                  author_institutions, converted >>
  /\ UNCHANGED << resolver_vars, extract_vars, merge_vars >>

\* the loop that renders the lines, and the return
EmitLines ==
  /\ pc = "emit"
  /\ converted' = [k \in 1..Len(institution_to_authors) |->
                     FormatLine(institution_to_authors[k])]
  /\ pc' = "done"
  /\ UNCHANGED << reorder_vars, limiter_vars >>
  /\ UNCHANGED << institution_config, affil_str, author_blocks, idx, entries,
                  author_institutions, institution_to_authors >>
  /\ UNCHANGED << resolver_vars, extract_vars, merge_vars >>

Next ==
  \/ ReturnEmpty
  \/ SplitBlocks
  \/ SkipBlock
  \/ ParseBlock
  \/ GroupAuthors
  \/ EmitLines

\* parse_affiliations as a function of its argument: the pairs of the entries of at
\* least 3 fields, grouped and rendered
RECURSIVE PairsFrom(_, _)
PairsFrom(blocks, k) ==
  IF k > Len(blocks) THEN << >>
  ELSE LET parts == SplitStrip(blocks[k], ",")
       IN IF blocks[k] = "" \/ Len(parts) < 3 THEN PairsFrom(blocks, k + 1)
          ELSE LET e == ParseEntry(parts)
               IN [n \in 1..Len(e.institutions) |->
                     << e.author_full, e.institutions[n].inst_standard >>]
                  \o PairsFrom(blocks, k + 1)

RenderGroups(groups) == [k \in 1..Len(groups) |-> FormatLine(groups[k])]

parse_affiliations(input) ==
  IF input = "" THEN << >>
  ELSE RenderGroups(Group(PairsFrom(SplitStrip(input, ";"), 1)))

\* the state at the call of parse_affiliations(input)
CallWith(input) ==
  /\ institution_config = DefaultConfig
  /\ affil_str = input
  /\ pc = "start"
  /\ author_blocks = << >>
  /\ idx = 1
  /\ entries = << >>
  /\ author_institutions = << >>
  /\ institution_to_authors = << >>
  /\ converted = << >>
  /\ ResolverIdle
  /\ ExtractIdle
  /\ ReorderIdle
  /\ LimiterIdle
  /\ MergeIdle

(***************************************************************************)
(* The inputs.  Records: up to MaxEntries entries drawn from RecordEntries *)
(* (valid entries, an entry of two fields, an empty entry).  Blocks: one   *)
(* entry whose address is up to MaxParts organisation tokens followed by   *)
(* one of the geography endings.                                           *)
(***************************************************************************)
MaxEntries == 2
MaxParts == 2

SeqsUpTo(S, n) == UNION {[1..k -> S] : k \in 0..n}

RecordEntries ==
  { "Smith, J, Peking University, Beijing, China",
    "Adams, B, Peking University, Beijing, China",
    "Smith, J, Seoul University, Seoul, South Korea, MIT, Boston, USA.",
    "Adams, B, Bank of China, Peoples R China",
    "Smith, J, Kyoto University, japan, Extra Lab",
    "Smith, J",
    "" }

RecordInputs == {Join(es, "; ") : es \in SeqsUpTo(RecordEntries, MaxEntries)}

OrgTokens ==
  { "Department of Oncology",
    "Seoul National University",
    "School of Medicine",
    "College of Arts",
    "Boston College" }

GeoEndings ==
  { << >>,
    << "Seoul", "South Korea" >>,
    << "Beijing", "China" >>,
    << "Boston", "United States" >>,
    << "Paris" >> }

BlockInputs ==
  { Join(<< "Kim, H" >> \o org \o geo, ", ") :
      org \in SeqsUpTo(OrgTokens, MaxParts), geo \in GeoEndings } \cup { "" }

Init == \E input \in RecordInputs : CallWith(input)

\* the entry of the documented example
RoundTripInput ==
  "Smith, John, Department of Oncology, University of Example, Example City, United States"

\* an address whose first word is an article and that holds two filler words in a row
FillerWordsInput == "Smith, J, The University of the Pacific, Stockton, USA"

InitBlocks ==
  \E input \in BlockInputs \cup {RoundTripInput, FillerWordsInput} : CallWith(input)

\* parse_affiliations on records of several entries
Spec == Init /\ [][Next]_vars

\* parse_affiliations on one entry, over the forms of its address
SpecBlocks == InitBlocks /\ [][Next]_vars

(***************************************************************************)
(* Reading the result: the author list and the institution of a line       *)
(* "[Author1; Author2] Institution."                                       *)
(***************************************************************************)
Range(seq) == {seq[k] : k \in 1..Len(seq)}

BracketEnd(line) == SetMin({i \in 1..Len(line) : CharAt(line, i) = "]"})
LineAuthors(line) == SplitStrip(SubSeq(line, 2, BracketEnd(line) - 1), ";")
LineInstitution(line) == SubSeq(line, BracketEnd(line) + 2, Len(line) - 1)

\* the lines whose author list names the author
LinesNaming(author) ==
  {i \in 1..Len(converted) : author \in Range(LineAuthors(converted[i]))}

\* the comma-separated fields of the k-th entry of the input, and its author prefix
EntryFields(k) == SplitStrip(author_blocks[k], ",")
EntryAuthor(k) == EntryFields(k)[1] \o ", " \o EntryFields(k)[2]

\* the normalized institutions of one parsed entry, of an author, of the record
EntryInstitutions(e) == {e.institutions[k].inst_standard : k \in 1..Len(e.institutions)}
AuthorInstitutions(author) ==
  UNION {EntryInstitutions(e) : e \in {e \in Range(entries) : e.author_full = author}}
RecordInstitutions == UNION {EntryInstitutions(e) : e \in Range(entries)}

\* the distinct authors paired with an institution, in the order of their first pair
FirstSeen(institution) ==
  LET all  == SelectSeq(author_institutions, LAMBDA p : p[2] = institution)
      keep == {n \in 1..Len(all) : \A m \in 1..(n - 1) : all[m][1] # all[n][1]}
  IN [k \in 1..Cardinality(keep) |->
        all[CHOOSE n \in keep : Cardinality({m \in keep : m < n}) = k - 1][1]]

C2_OneLinePerInstitution ==
  pc = "done" =>
    /\ Len(converted) = Cardinality(RecordInstitutions)
    /\ {LineInstitution(converted[i]) : i \in 1..Len(converted)} = RecordInstitutions
    /\ \A i, j \in 1..Len(converted) :
         LineInstitution(converted[i]) = LineInstitution(converted[j]) => i = j
    /\ \A e1, e2 \in Range(entries) :
         e1.remaining_parts = e2.remaining_parts =>
           \A inst \in EntryInstitutions(e1) :
             \E i \in 1..Len(converted) :
               /\ LineInstitution(converted[i]) = inst
               /\ {e1.author_full, e2.author_full} \subseteq Range(LineAuthors(converted[i]))
               /\ \A j \in 1..Len(converted) :
                    LineInstitution(converted[j]) = inst => j = i

\* two different authors with the same raw institution tokens came out as one line
\* naming both
C2_Witness ==
  /\ pc = "done"
  /\ Len(converted) = 1
  /\ Len(LineAuthors(converted[1])) = 2
  /\ \E e1, e2 \in Range(entries) :
       /\ e1.author_full # e2.author_full
       /\ e1.remaining_parts = e2.remaining_parts

RECURSIVE ConcatParts(_, _)
ConcatParts(institutions, k) ==
  IF k > Len(institutions) THEN << >>
  ELSE institutions[k].inst_parts \o ConcatParts(institutions, k + 1)

\* the indices of the address tokens of an entry that are country boundaries
BoundaryIndices(e) ==
  {i \in 1..Len(e.remaining_parts) : IsCountryPart(e.remaining_parts[i])}

\* C7: for every parsed entry whose address tokens hold at least one country
\* boundary, every block of the entry ends with a boundary token and holds no other
\* boundary token, and the blocks are consecutive: together they are the tokens up
\* to the last boundary, each block starting right after the boundary that closed
\* the one before.
C7_BlocksCloseAtEachBoundary ==
  \A e \in Range(entries) :
    BoundaryIndices(e) # {} =>
      /\ Len(e.institutions) = Cardinality(BoundaryIndices(e))
      /\ \A k \in 1..Len(e.institutions) :
           LET b == e.institutions[k].inst_parts
           IN /\ b # << >>
              /\ IsCountryPart(b[Len(b)])
              /\ \A n \in 1..(Len(b) - 1) : ~IsCountryPart(b[n])
      /\ ConcatParts(e.institutions, 1)
           = SubSeq(e.remaining_parts, 1, -SetMin({-i : i \in BoundaryIndices(e)}))

\* an entry with two country tokens has been cut into two blocks
C7_Witness ==
  \E e \in Range(entries) :
    /\ Cardinality(BoundaryIndices(e)) = 2
    /\ Len(e.institutions) = 2
    /\ Len(e.institutions[2].inst_parts) >= 2

(***************************************************************************)
(* C8                                                                      *)
(***************************************************************************)
GazetteerLower == Range(countries_lower)

\* C8 as stated: a token of a parsed entry is a segmentation boundary if and only
\* if, trimmed of surrounding whitespace, it equals a gazetteer name ignoring
\* letter case and has at most 2 words.
C8_BoundaryIffGazetteerName ==
  \A e \in Range(entries) :
    \A i \in 1..Len(e.remaining_parts) :
      i \in Range(e.country_indices) <=>
        /\ Lower(Strip(e.remaining_parts[i])) \in GazetteerLower
        /\ WordCount(Strip(e.remaining_parts[i])) <= 2

\* C8 as amended: a token of a parsed entry is a segmentation boundary if and only
\* if, trimmed of surrounding whitespace and of trailing periods, it equals a
\* gazetteer name ignoring letter case and has at most 2 words; a token of 3 or more
\* words is never a boundary, whatever country name it contains or equals.
C8_BoundaryIffTrimmedGazetteerName ==
  \A e \in Range(entries) :
    \A i \in 1..Len(e.remaining_parts) :
      /\ i \in Range(e.country_indices) <=>
           /\ Lower(RStripDot(Strip(e.remaining_parts[i]))) \in GazetteerLower
           /\ WordCount(RStripDot(Strip(e.remaining_parts[i]))) <= 2
      /\ WordCount(e.remaining_parts[i]) >= 3 => i \notin Range(e.country_indices)

\* an entry with a token of 3 words that holds a country name and is no boundary,
\* parsed in a record that also has a boundary written with a trailing period
C8_Witness ==
  /\ \E e \in Range(entries) :
       \E i \in 1..Len(e.remaining_parts) :
         /\ WordCount(e.remaining_parts[i]) >= 3
         /\ Contains(Lower(e.remaining_parts[i]), "china")
         /\ i \notin Range(e.country_indices)
  /\ \E e \in Range(entries) :
       \E i \in Range(e.country_indices) :
         Lower(e.remaining_parts[i]) \notin GazetteerLower

(***************************************************************************)
(* Reading a normalized institution: its comma-separated components        *)
(***************************************************************************)
Components(institution) == SplitStrip(institution, ",")

\* the last non-empty component, "" when there is none
LastComponent(institution) ==
  LET c  == Components(institution)
      at == {k \in 1..Len(c) : c[k] # ""}
  IN IF at = {} THEN "" ELSE c[-SetMin({-k : k \in at})]

\* the Scopus names the mapping replaces, and the names accepted as standard: the
\* names the mapping produces and the gazetteer names it leaves alone
AliasNames == {country_mapping[k][1] : k \in {k \in 1..Len(country_mapping) :
                                               country_mapping[k][1] # country_mapping[k][2]}}
StandardNames ==
  {country_mapping[k][2] : k \in 1..Len(country_mapping)} \cup (Range(countries) \ AliasNames)

\* the standard name of a country token: the mapped name of an alias (in any letter
\* case, as the segmenter accepts it), the token itself otherwise
StandardOf(token) ==
  LET at == {k \in 1..Len(country_mapping) :
               Lower(country_mapping[k][1]) = Lower(RStripDot(token))}
  IN IF at = {} THEN token ELSE country_mapping[SetMin(at)][2]

\* the blocks of the parsed entries
AllBlocks == UNION {Range(e.institutions) : e \in Range(entries)}

\* a block closed by a country boundary
ClosedByCountry(b) == IsCountryPart(b.inst_parts[Len(b.inst_parts)])

(***************************************************************************)
(* C5                                                                      *)
(***************************************************************************)
\* C5: the last non-empty component of every normalized institution is a standard
\* country name when the block was closed by a country boundary, and is never one
\* of the raw alias names (United States, United Kingdom, China, Korea, Turkey), in
\* the letter case of the mapping or as the segmenter accepted it.
C5_LastComponentStandardCountry ==
  \A b \in AllBlocks :
    /\ ClosedByCountry(b) => RStripDot(LastComponent(b.inst_standard)) \in StandardNames
    /\ \A a \in AliasNames : Lower(LastComponent(b.inst_standard)) # Lower(a)

(***************************************************************************)
(* C6                                                                      *)
(***************************************************************************)
\* C6: every normalized institution is a fixed point of the normalization: applying
\* reorder_institution_parts, abbreviate_institution and standardize_country to it
\* again returns it unchanged.
C6_NormalizeIdempotent ==
  \A b \in AllBlocks : Normalize(b.inst_standard) = b.inst_standard

(***************************************************************************)
(* C9                                                                      *)
(***************************************************************************)
\* the parts of a block in the order Primary, Secondary, Geography, each class in
\* the order of the input
ExpectedOrder(parts0) ==
  IF Len(parts0) < 2 THEN parts0
  ELSE LET g == SplitGeo(parts0)
       IN SelectSeq(g.parts, LAMBDA x : PartRole(x, g.parts) = "primary")
          \o SelectSeq(g.parts, LAMBDA x : PartRole(x, g.parts) = "secondary")
          \o g.geo_parts

\* the components of the normalized institution are the parts of the block in the
\* order Primary, Secondary, Geography (at most two geography parts, the last part
\* of the block last), each abbreviated
KeepsClassOrder(b) ==
  LET exp   == ExpectedOrder(b.inst_parts)
      comps == Components(b.inst_standard)
  IN /\ Len(comps) = Len(exp)
     /\ Components(b.inst_reordered) = exp
     /\ \A k \in 1..(Len(exp) - 1) : comps[k] = abbreviate_institution(exp[k])
     /\ Len(b.inst_parts) >= 2 =>
          /\ Len(SplitGeo(b.inst_parts).geo_parts) <= 2
          /\ ClosedByCountry(b) => exp[Len(exp)] = b.inst_parts[Len(b.inst_parts)]

\* the ordering half of C9 alone
ReorderKeepsClassOrder == \A b \in AllBlocks : KeepsClassOrder(b)

\* C9: every normalized institution lists all Primary parts, then all Secondary
\* parts, then the Geography parts, each class in input order, and the final
\* component of a block closed by a country boundary is the standard name of that
\* block's country token.
C9_ClassOrderAndCountryLast ==
  \A b \in AllBlocks :
    /\ KeepsClassOrder(b)
    /\ ClosedByCountry(b) =>
         LastComponent(b.inst_standard) = StandardOf(b.inst_parts[Len(b.inst_parts)])

(***************************************************************************)
(* C10                                                                     *)
(***************************************************************************)
Count(seq, x) == Cardinality({k \in 1..Len(seq) : seq[k] = x})

\* C10: the output of reorder_institution_parts is a permutation of the parts of
\* the block: every part occurs in it as often as in the block, none dropped and
\* none duplicated, and the three lists the parts are assigned to (Primary,
\* Secondary, Geography) have together as many elements as the block has parts.
C10_ReorderIsPermutation ==
  \A b \in AllBlocks :
    LET out == Components(b.inst_reordered)
    IN /\ Len(out) = Len(b.inst_parts)
       /\ \A x \in Range(out) \cup Range(b.inst_parts) : Count(out, x) = Count(b.inst_parts, x)
       /\ Len(b.inst_parts) >= 2 =>
            LET g == SplitGeo(b.inst_parts)
                c == ClassifyFrom(g.parts, 1, << >>, << >>)
            IN Len(c.primary_parts) + Len(c.secondary_parts) + Len(g.geo_parts)
                 = Len(b.inst_parts)

\* a block of four parts with a Primary, a Secondary and two Geography parts has
\* been reordered into another order
C10_Witness ==
  \E b \in AllBlocks :
    /\ Len(b.inst_parts) = 4
    /\ b.inst_reordered # b.institution
    /\ LET g == SplitGeo(b.inst_parts)
           c == ClassifyFrom(g.parts, 1, << >>, << >>)
       IN Len(c.primary_parts) = 1 /\ Len(c.secondary_parts) = 1 /\ Len(g.geo_parts) = 2

(***************************************************************************)
(* C11                                                                     *)
(***************************************************************************)
\* the first component that contains the word, 0 when there is none
ComponentWith(institution, word) ==
  LET c  == Components(institution)
      at == {k \in 1..Len(c) : Contains(c[k], word)}
  IN IF at = {} THEN 0 ELSE SetMin(at)

EndsWith(s, suffix) ==
  Len(s) >= Len(suffix) /\ SubSeq(s, Len(s) - Len(suffix) + 1, Len(s)) = suffix

\* C11: with the built-in abbreviation table, the entry "Smith, John, Department of
\* Oncology, University of Example, Example City, United States" gives exactly one
\* line, for the author "Smith, John" alone; in its institution the university
\* component comes before the department component, the department is abbreviated
\* (no "Department" left), and the line ends with "Example City, USA.".
C11_RoundTripExample ==
  (pc = "done" /\ affil_str = RoundTripInput /\ institution_config = DefaultConfig) =>
    /\ Len(converted) = 1
    /\ LineAuthors(converted[1]) = << "Smith, John" >>
    /\ LET inst == LineInstitution(converted[1])
       IN /\ ComponentWith(inst, "Univ") > 0
          /\ ComponentWith(inst, "Dept") > ComponentWith(inst, "Univ")
          /\ ComponentWith(inst, "Oncology") = ComponentWith(inst, "Dept")
          /\ ~Contains(Lower(inst), "department")
    /\ EndsWith(converted[1], "Example City, USA.")

\* the example has been converted
C11_Witness ==
  /\ pc = "done"
  /\ affil_str = RoundTripInput
  /\ institution_config = DefaultConfig
  /\ converted # << >>

(***************************************************************************)
(* _is_independent_college_or_school on its own: a college or school name  *)
(* among up to MaxSiblings other parts, under the default configuration    *)
(* and under one with whitelists.                                          *)
(***************************************************************************)
MaxSiblings == 2

\* the default configuration with the whitelists of a config file merged in
CustomConfig ==
  [independent_colleges |-> << "Imperial College London", "King's College London" >>,
   independent_schools  |-> << "Harvard Medical School" >>,
   abbreviations        |-> DefaultAbbreviations]

ResolverNames ==
  { "Imperial College London",
    "Harvard Medical School",
    "College of Medicine",
    "School of Medicine",
    "College of Arts",
    "School of Arts",
    "Boston College",
    "Hofstra College" }

ResolverSiblings ==
  { "Seoul National University",
    "Università di Pavia",
    "City Hospital" }

\* the call _is_independent_college_or_school(name, all_parts)
ResolverCall(config, name, all_parts) ==
  /\ institution_config = config
  /\ affil_str = ""
  /\ pc = "start"
  /\ author_blocks = << >>
  /\ idx = 1
  /\ entries = << >>
  /\ author_institutions = << >>
  /\ institution_to_authors = << >>
  /\ converted = << >>
  /\ arg_name = name
  /\ arg_all_parts = all_parts
  /\ is_independent = FALSE
  /\ ExtractIdle
  /\ ReorderIdle
  /\ LimiterIdle
  /\ MergeIdle

InitResolver ==
  \E config \in {DefaultConfig, CustomConfig}, name \in ResolverNames,
     others \in SeqsUpTo(ResolverSiblings, MaxSiblings), at \in 0..MaxSiblings :
    /\ at <= Len(others)
    /\ ResolverCall(config, name,
                    SubSeq(others, 1, at) \o << name >> \o SubSeq(others, at + 1, Len(others)))

\* the body of _is_independent_college_or_school, to its return
ResolveName ==
  /\ pc = "start"
  /\ is_independent' = is_independent_college_or_school(arg_name, arg_all_parts)
  /\ pc' = "done"
  /\ UNCHANGED << reorder_vars, limiter_vars >>
  /\ UNCHANGED << institution_config, affil_str, author_blocks, idx, entries,
                  author_institutions, institution_to_authors, converted,
                  arg_name, arg_all_parts, extract_vars, merge_vars >>

NextResolver == ResolveName

SpecResolver == InitResolver /\ [][NextResolver]_vars

(***************************************************************************)
(* The resolver's cases, read off the name and its siblings                *)
(***************************************************************************)
\* the name matches an entry of a whitelist of the configuration
Whitelisted ==
  \E w \in Range(institution_config.independent_colleges)
           \cup Range(institution_config.independent_schools) :
    Contains(Lower(arg_name), Lower(w))

\* another part carries a university word (University, Università, Universität, ...)
UniversitySibling ==
  \E p \in Range(arg_all_parts) : p # arg_name /\ Contains(Lower(p), "universit")

\* the name carries a professional-domain qualifier
ProfessionalQualifier ==
  \E q \in Range(professional_indicators) : Contains(Lower(arg_name), q)

CollegeOrSchool ==
  Contains(Lower(arg_name), "college") \/ Contains(Lower(arg_name), "school")

(***************************************************************************)
(* C12                                                                     *)
(***************************************************************************)
\* C12: a College or School name that is not whitelisted, has no sibling with a
\* university word and carries a professional-domain qualifier is Primary (the
\* resolver returns True), a College name as well as a School name, and a name of
\* the form "College of <X>" included.
C12_ProfessionalCollegeOrSchoolPrimary ==
  (pc = "done" /\ CollegeOrSchool /\ ~Whitelisted /\ ~UniversitySibling
     /\ ProfessionalQualifier) => is_independent

(***************************************************************************)
(* C13                                                                     *)
(***************************************************************************)
\* C13: for a College or School name that matches no whitelist entry, if another
\* part of the institution carries a university word the resolver returns False
\* (Secondary), also when the name carries a professional-domain qualifier.
C13_UniversitySiblingSecondary ==
  (pc = "done" /\ CollegeOrSchool /\ ~Whitelisted /\ UniversitySibling) => ~is_independent

\* a school of medicine next to a university has been resolved
C13_Witness ==
  /\ pc = "done"
  /\ ~Whitelisted /\ UniversitySibling /\ ProfessionalQualifier
  /\ Contains(Lower(arg_name), "school")
  /\ ~is_independent

(***************************************************************************)
(* C14                                                                     *)
(***************************************************************************)
\* C14: a College or School name that matches an entry of the configured whitelist is
\* Primary (the resolver returns True) whatever its siblings, also next to a part
\* that carries a university word.
C14_WhitelistedPrimary ==
  (pc = "done" /\ CollegeOrSchool /\ Whitelisted) => is_independent

\* a whitelisted name next to a university has been resolved
C14_Witness ==
  pc = "done" /\ Whitelisted /\ UniversitySibling /\ is_independent

(***************************************************************************)
(* C15                                                                     *)
(***************************************************************************)
\* C15: a name of the form "College of <X>" that is not whitelisted and carries no
\* professional-domain qualifier is Secondary (the resolver returns False), with a
\* university sibling, without one, and when it is the only part.
C15_CollegeOfSecondary ==
  (pc = "done" /\ Contains(Lower(arg_name), "college of") /\ ~Whitelisted
     /\ ~ProfessionalQualifier) => ~is_independent

\* a "College of <X>" that is the only part has been resolved
C15_Witness ==
  /\ pc = "done"
  /\ Contains(Lower(arg_name), "college of") /\ ~Whitelisted /\ ~ProfessionalQualifier
  /\ arg_all_parts = << arg_name >>
  /\ ~is_independent

(***************************************************************************)
(* C16                                                                     *)
(***************************************************************************)
\* the entries without the k-th
Without(seq, k) == SubSeq(seq, 1, k - 1) \o SubSeq(seq, k + 1, Len(seq))

\* the k-th entry has fewer than 3 comma-separated fields
Malformed(k) == Len(EntryFields(k)) < 3

\* C16: an entry of fewer than 3 comma-separated fields is skipped without effect on
\* the other entries: for every such entry of the record, at whatever position, the
\* returned lines are the lines parse_affiliations returns for the record without it.
C16_MalformedEntrySkipped ==
  pc = "done" =>
    \A k \in 1..Len(author_blocks) :
      Malformed(k) => converted = parse_affiliations(Join(Without(author_blocks, k), "; "))

\* a record whose first entry is malformed and whose second is not has been parsed
C16_Witness ==
  /\ pc = "done"
  /\ Len(author_blocks) >= 2
  /\ Malformed(1)
  /\ ~Malformed(2)
  /\ converted # << >>

(***************************************************************************)
(* extract_primary_institutions and clean_institution_name                 *)
(***************************************************************************)
extract_primary_keywords ==
  << "University", "Università", "Universität", "Universi",
     "Hospital", "Ospedale", "Clinic", "Medical Center",
     "Institute", "Istituto", "Institut",
     "Academy", "Accademia",
     "Foundation", "Fondazione", "IRCCS",
     "Laboratory", "Laboratorio",
     "Corporation", "Company", "Ltd",
     "Ministry", "Government" >>

extract_secondary_keywords ==
  << "Department of", "Dept of", "Dept.",
     "Division of", "Div of",
     "Section of", "Unit of",
     "Laboratory of",
     "Center for" >>

extract_primary_keywords_lower == LowerAll(extract_primary_keywords)
extract_secondary_keywords_lower == LowerAll(extract_secondary_keywords)

\* clean_institution_name: the replacements, in dict order
replacements ==
  << << "Università degli Studi di", "University of" >>,
     << "Università di", "University of" >>,
     << "Università", "University" >>,
     << "Ospedale", "Hospital" >>,
     << "Istituto", "Institute" >>,
     << "Fondazione IRCCS", "IRCCS Fondazione" >> >>

\* for old, new in replacements.items(): re.sub(r'\b' + old + r'\b', new, name, IGNORECASE)
RECURSIVE ApplyReplacements(_, _)
ApplyReplacements(result, k) ==
  IF k > Len(replacements) \/ result = "" THEN result
  ELSE ApplyReplacements(
         ReSub(result, WordMatches(replacements[k][1], result), replacements[k][2]), k + 1)

\* re.sub(r'\s+', ' ', name).strip()
CollapseSpaces(s) == Strip(ReSub(s, SpacesMatches(s), " "))

clean_institution_name(raw_name) == CollapseSpaces(ApplyReplacements(CollapseSpaces(raw_name), 1))

\* the institution_parts of one entry: the comma-separated fields after the first,
\* not stripped, or the whole entry when it has no comma
InstitutionParts(affil) ==
  IF Contains(affil, ",")
  THEN SubSeq(Split(affil, ","), 2, Len(Split(affil, ",")))
  ELSE << affil >>

\* part.lower().startswith(sec_keyword.lower()) for one of the secondary keywords
StartsWithSecondary(part_lower) ==
  \E k \in 1..Len(extract_secondary_keywords_lower) :
    StartsAt(part_lower, extract_secondary_keywords_lower[k], 1)

\* is_primary with the resolver's answer or-ed to the keyword test
IsPrimaryPart_Or(part, part_lower, institution_parts) ==
  \/ ContainsAny(part_lower, extract_primary_keywords_lower)
  \/ /\ Contains(part_lower, "college") \/ Contains(part_lower, "school")
     /\ is_independent_college_or_school(part, institution_parts)

\* is_primary at "if is_primary:", for a part that was not skipped
IsPrimaryPart(part, part_lower, institution_parts) ==
  IF Contains(part_lower, "college") \/ Contains(part_lower, "school")
  THEN is_independent_college_or_school(part, institution_parts)
  ELSE ContainsAny(part_lower, extract_primary_keywords_lower)

\* one iteration of "for part in institution_parts": the names it adds to the set
NamesOfPart(part, institution_parts) ==
  IF Len(part) < 10 THEN {}
  ELSE IF StartsWithSecondary(Lower(part)) THEN {}
  ELSE IF ~IsPrimaryPart(part, Lower(part), institution_parts) THEN {}
  ELSE {clean_institution_name(part)} \ {""}

\* one iteration of "for affil in author_affils"
NamesOfAffil(affil) ==
  IF affil = "" THEN {}
  ELSE UNION {NamesOfPart(Strip(InstitutionParts(affil)[k]), InstitutionParts(affil)) :
                k \in 1..Len(InstitutionParts(affil))}

\* primary_institutions after the loop over author_affils
NamesOfRecord(input) ==
  UNION {NamesOfAffil(affil) : affil \in Range(SplitStrip(input, ";"))}

\* the lists that keep one element per name added, the repeats too
Listings_WithRepeats(names) ==
  {f \in [1..(Cardinality(names) + 1) -> names] : \A x \in names : \E k \in DOMAIN f : f[k] = x}

\* list(primary_institutions): the elements of the set, each once, in the iteration
\* order of the set, which depends on the hash seed of the process
Listings(names) ==
  {f \in [1..Cardinality(names) -> names] : \A x \in names : \E k \in DOMAIN f : f[k] = x}

\* "if not affil_str: return []"
ExtractReturnEmpty ==
  /\ pc = "c3"
  /\ affil_str = ""
  /\ primary_insts' = << >>
  /\ pc' = "done"
  /\ UNCHANGED << reorder_vars, limiter_vars >>
  /\ UNCHANGED << institution_config, affil_str, author_blocks, idx, entries,
                  author_institutions, institution_to_authors, converted,
                  primary_institutions, earlier_runs, resolver_vars, merge_vars >>

\* the loops that fill primary_institutions
ExtractScan ==
  /\ pc = "c3"
  /\ affil_str # ""
  /\ primary_institutions' = NamesOfRecord(affil_str)
  /\ pc' = "collected"
  /\ UNCHANGED << reorder_vars, limiter_vars >>
  /\ UNCHANGED << institution_config, affil_str, author_blocks, idx, entries,
                  author_institutions, institution_to_authors, converted,
                  primary_insts, earlier_runs, resolver_vars, merge_vars >>

\* return list(primary_institutions)
ExtractReturn ==
  /\ pc = "collected"
  /\ primary_insts' \in Listings(primary_institutions)
  /\ pc' = "done"
  /\ UNCHANGED << reorder_vars, limiter_vars >>
  /\ UNCHANGED << institution_config, affil_str, author_blocks, idx, entries,
                  author_institutions, institution_to_authors, converted,
                  primary_institutions, earlier_runs, resolver_vars, merge_vars >>

NextExtract ==
  \/ ExtractReturnEmpty
  \/ ExtractScan
  \/ ExtractReturn

\* the state at the call of extract_primary_institutions(input), after the lines
\* parse_affiliations returned for the same field
ExtractCallWith(input, position, affils) ==
  /\ institution_config = DefaultConfig
  /\ affil_str = input
  /\ pc = position
  /\ author_blocks = << >>
  /\ idx = 1
  /\ entries = << >>
  /\ author_institutions = << >>
  /\ institution_to_authors = << >>
  /\ converted = affils
  /\ ResolverIdle
  /\ ExtractIdle
  /\ ReorderIdle
  /\ LimiterIdle
  /\ MergeIdle

ExtractEntries ==
  { "Smith, J, Harvard University, Boston, USA",
    "Adams, B, HARVARD UNIVERSITY, Boston, USA",
    "Smith, J, Department of Surgery, Chiba Aoba Municipal Hospital, Chiba, Japan",
    "Kim, H, University of Oxford School of Geography, Oxford, England",
    "Kim, H, Boston College, Boston, USA",
    "Rossi, M, Università degli  Studi di Pavia, Pavia, Italy",
    "Municipal Hospital" }

ExtractInputs == {Join(es, "; ") : es \in SeqsUpTo(ExtractEntries, MaxEntries)}

\* an author with two institutions, a college and then a university
SeveralInstitutionsInput ==
  "Kim, H, Boston College, Boston, USA, Harvard University, Cambridge, USA"

InitExtract ==
  \E input \in ExtractInputs \cup {SeveralInstitutionsInput} :
    ExtractCallWith(input, "c3", << >>)

\* extract_primary_institutions on records of several entries
SpecExtract == InitExtract /\ [][NextExtract]_vars

Candidates ==
  UNION {{<< Strip(InstitutionParts(affil)[k]), InstitutionParts(affil) >> :
            k \in {k \in 1..Len(InstitutionParts(affil)) :
                     /\ Len(Strip(InstitutionParts(affil)[k])) >= 10
                     /\ ~StartsWithSecondary(Lower(Strip(InstitutionParts(affil)[k])))}} :
         affil \in Range(SplitStrip(affil_str, ";")) \ {""}}

HasPrimaryKeyword(part) ==
  \E kw \in Range(extract_primary_keywords) : Contains(Lower(part), Lower(kw))

MentionsCollegeOrSchool(part) ==
  Contains(Lower(part), "college") \/ Contains(Lower(part), "school")

\* C18: every part that reaches the minimum length and does not start with a
\* secondary-unit prefix has its cleaned name in the result whenever it contains a
\* primary keyword, and also whenever the resolver returns Primary for it: a
\* primary keyword alone suffices.
C18_KeywordOrResolverAccepts ==
  pc = "done" =>
    \A c \in Candidates :
      (HasPrimaryKeyword(c[1]) \/ is_independent_college_or_school(c[1], c[2]))
        => clean_institution_name(c[1]) \in Range(primary_insts)

\* a candidate is accepted by the resolver's answer when it mentions a college or a
\* school, and by the primary keywords otherwise
Accepted(c) ==
  IF MentionsCollegeOrSchool(c[1])
  THEN is_independent_college_or_school(c[1], c[2])
  ELSE HasPrimaryKeyword(c[1])

\* C18, as the code has it: for a part that mentions a college or a school the
\* resolver's answer replaces the keyword test, so such a part is accepted exactly
\* when the resolver returns Primary, primary keyword or not; any other part is
\* accepted exactly when it contains a primary keyword.  The result holds the
\* non-empty cleaned names of the accepted parts and nothing else.
C18_ResolverReplacesKeywordTest ==
  pc = "done" =>
    /\ \A c \in Candidates :
         (Accepted(c) /\ clean_institution_name(c[1]) # "")
           => clean_institution_name(c[1]) \in Range(primary_insts)
    /\ \A n \in Range(primary_insts) :
         \E c \in Candidates : Accepted(c) /\ clean_institution_name(c[1]) = n

\* a record with a part accepted by its keyword, and a part with a primary keyword
\* that the resolver rejected and that is not in the result, has been scanned
C18_Witness ==
  /\ pc = "done"
  /\ \E c \in Candidates :
       /\ HasPrimaryKeyword(c[1]) /\ ~MentionsCollegeOrSchool(c[1])
       /\ clean_institution_name(c[1]) \in Range(primary_insts)
  /\ \E c \in Candidates :
       /\ HasPrimaryKeyword(c[1]) /\ MentionsCollegeOrSchool(c[1])
       /\ ~is_independent_college_or_school(c[1], c[2])
       /\ clean_institution_name(c[1]) \notin Range(primary_insts)

(***************************************************************************)
(* convert_record, the C1 and C3 fields: parse_affiliations and then       *)
(* extract_primary_institutions on the same field, in up to MaxRuns runs   *)
(* of the program on the same record.                                      *)
(***************************************************************************)
MaxRuns == 2

\* affils = self.parse_affiliations(scopus_record.get('Authors with affiliations', ''))
ConvertC1 ==
  /\ pc = "c1"
  /\ converted' = parse_affiliations(affil_str)
  /\ pc' = "c3"
  /\ UNCHANGED << reorder_vars, limiter_vars >>
  /\ UNCHANGED << institution_config, affil_str, author_blocks, idx, entries,
                  author_institutions, institution_to_authors,
                  resolver_vars, extract_vars, merge_vars >>

\* the program is run again on the same record, in a new process
RunAgain ==
  /\ pc = "done"
  /\ Len(earlier_runs) < MaxRuns - 1
  /\ earlier_runs' = Append(earlier_runs, [affils |-> converted, primary_insts |-> primary_insts])
  /\ converted' = << >>
  /\ primary_institutions' = {}
  /\ primary_insts' = << >>
  /\ pc' = "c1"
  /\ UNCHANGED << reorder_vars, limiter_vars >>
  /\ UNCHANGED << institution_config, affil_str, author_blocks, idx, entries,
                  author_institutions, institution_to_authors, resolver_vars, merge_vars >>

NextRuns ==
  \/ ConvertC1
  \/ ExtractReturnEmpty
  \/ ExtractScan
  \/ ExtractReturn
  \/ RunAgain

RunEntries ==
  { "Smith, J, Harvard University, Boston, USA",
    "Kim, H, Boston College, Boston, USA",
    "Smith, J, Department of Surgery, Chiba Aoba Municipal Hospital, Chiba, Japan",
    "" }

RunInputs == {Join(es, "; ") : es \in SeqsUpTo(RunEntries, MaxEntries)}

InitRuns == \E input \in RunInputs : ExtractCallWith(input, "c1", << >>)

\* the C1 and C3 fields of one record, in repeated runs
SpecRuns == InitRuns /\ [][NextRuns]_vars

(***************************************************************************)
(* C19                                                                     *)
(***************************************************************************)
\* every earlier run returned the lines parse_affiliations returns in this run
RunsAgreeOnAffils ==
  pc = "done" => \A k \in 1..Len(earlier_runs) : earlier_runs[k].affils = converted

\* C19: for the same affiliation string and the same configuration, two runs return
\* the same: parse_affiliations the same lines in the same order, and
\* extract_primary_institutions the same names in the same order.
C19_RunsReturnTheSame ==
  pc = "done" =>
    \A k \in 1..Len(earlier_runs) :
      /\ earlier_runs[k].affils = converted
      /\ earlier_runs[k].primary_insts = primary_insts

(***************************************************************************)
(* merge_deduplicate.py: RecordMatcher, RecordMerger, MergeDeduplicateTool *)
(* A record is a dict from field tags to strings.                          *)
(***************************************************************************)
\* record.get(field, '')
Get(record, field) == IF field \in DOMAIN record THEN record[field] ELSE ""

\* record[field] = value
Put(record, field, value) ==
  [k \in DOMAIN record \cup {field} |-> IF k = field THEN value ELSE record[k]]

\* int(s) for a string of decimal digits
RECURSIVE IntOf(_)
IntOf(s) ==
  IF s = "" THEN 0
  ELSE 10 * IntOf(SubSeq(s, 1, Len(s) - 1))
       + (CHOOSE d \in 0..9 : CharAt("0123456789", d + 1) = CharAt(s, Len(s)))

\* str(n) for n >= 0
RECURSIVE StrOf(_)
StrOf(n) ==
  IF n < 10 THEN CharAt("0123456789", n + 1)
  ELSE StrOf(n \div 10) \o CharAt("0123456789", (n % 10) + 1)

\* re.sub(r'[^\w\s]', '', title)
RemovePunctuation(title) ==
  ReSub(title,
        {<< j, 1 >> : j \in {j \in 1..Len(title) :
                              ~IsWordChar(CharAt(title, j)) /\ ~IsSpace(CharAt(title, j))}},
        "")

normalize_title(title) == CollapseSpaces(RemovePunctuation(Lower(title)))

get_first_author(record) ==
  IF Get(record, "AU") # "" THEN Lower(Strip(Split(Get(record, "AU"), "\n")[1])) ELSE ""

\* the comparison of the normalized titles, the years and the first authors
SameWork(title1, title2, year1, year2, author1, author2) ==
  IF title1 = "" \/ title2 = "" THEN FALSE
  ELSE IF ~(\/ title1 = title2
            \/ /\ Len(title1) > 20
               /\ Len(title2) > 20
               /\ (Contains(title2, title1) \/ Contains(title1, title2)))
       THEN FALSE
  ELSE IF year1 # year2 THEN FALSE
  ELSE IF author1 # "" /\ author2 # "" THEN author1 = author2
  ELSE TRUE

is_duplicate(record1, record2) ==
  LET doi1 == Lower(Strip(Get(record1, "DI")))
      doi2 == Lower(Strip(Get(record2, "DI")))
  IN IF doi1 # "" /\ doi2 # "" /\ doi1 = doi2 THEN TRUE
     ELSE SameWork(normalize_title(Get(record1, "TI")), normalize_title(Get(record2, "TI")),
                   Get(record1, "PY"), Get(record2, "PY"),
                   get_first_author(record1), get_first_author(record2))

supplement_fields == << "AB", "LA", "DT", "PU", "SN", "J9", "JI", "PM", "DI" >>

\* for field in supplement_fields: fill the fields the merged record lacks
RECURSIVE Supplement(_, _, _)
Supplement(merged, scopus_record, k) ==
  IF k > Len(supplement_fields) THEN merged
  ELSE IF Get(merged, supplement_fields[k]) = "" /\ Get(scopus_record, supplement_fields[k]) # ""
       THEN Supplement(Put(merged, supplement_fields[k], scopus_record[supplement_fields[k]]),
                       scopus_record, k + 1)
       ELSE Supplement(merged, scopus_record, k + 1)

\* int(record.get('TC', '0') or '0')
TimesCited(record) == IF Get(record, "TC") = "" THEN 0 ELSE IntOf(Get(record, "TC"))

merge_scopus_to_wos(wos_record, scopus_record) ==
  Supplement(
    IF TimesCited(scopus_record) > TimesCited(wos_record)
    THEN Put(Put(wos_record, "TC", StrOf(TimesCited(scopus_record))),
             "Z9", StrOf(TimesCited(scopus_record)))
    ELSE wos_record,
    scopus_record, 1)

\* the inner loop without "if scopus_idx in scopus_matched: continue"
Duplicating_IgnoringMatched(wos_record) ==
  {j \in 1..Len(scopus_records) : is_duplicate(wos_record, scopus_records[j])}

\* the inner loop of find_wos_scopus_duplicates for one WOS record: the indices of the
\* Scopus records that are not matched yet and duplicate it
Duplicating(wos_record) ==
  {j \in 1..Len(scopus_records) :
     j \notin scopus_matched /\ is_duplicate(wos_record, scopus_records[j])}

\* one iteration of "for wos_idx, wos_record in enumerate(self.wos_records)"
MatchWosRecord ==
  /\ pc = "find"
  /\ wos_idx <= Len(wos_records)
  /\ LET found == Duplicating(wos_records[wos_idx])
     IN IF found = {}
        THEN UNCHANGED << wos_scopus_pairs, scopus_matched >>
        ELSE /\ wos_scopus_pairs' = Append(wos_scopus_pairs, << wos_idx, SetMin(found) >>)
             /\ scopus_matched' = scopus_matched \cup {SetMin(found)}
  /\ wos_idx' = wos_idx + 1
  /\ UNCHANGED << reorder_vars, limiter_vars >>
  /\ UNCHANGED << institution_config, affil_str, pc, author_blocks, idx, entries,
                  author_institutions, institution_to_authors, converted,
                  wos_records, scopus_records, final_records,
                  resolver_vars, extract_vars >>

\* the records merge_records appends for the WOS records: each WOS record, merged
\* with the Scopus record of its first pair when it has one
MergedWos(k) ==
  LET mine == {n \in 1..Len(wos_scopus_pairs) : wos_scopus_pairs[n][1] = k}
  IN IF mine = {}
     THEN [record |-> wos_records[k], wos_idx |-> k, scopus_idx |-> 0]
     ELSE [record     |-> merge_scopus_to_wos(wos_records[k],
                                              scopus_records[wos_scopus_pairs[SetMin(mine)][2]]),
           wos_idx    |-> k,
           scopus_idx |-> wos_scopus_pairs[SetMin(mine)][2]]

\* the Scopus records merge_records appends: those whose index is in no pair
RECURSIVE ScopusOnlyFrom(_, _)
ScopusOnlyFrom(scopus_used, j) ==
  IF j > Len(scopus_records) THEN << >>
  ELSE (IF j \in scopus_used THEN << >>
        ELSE << [record |-> scopus_records[j], wos_idx |-> 0, scopus_idx |-> j] >>)
       \o ScopusOnlyFrom(scopus_used, j + 1)

\* the return of find_wos_scopus_duplicates and merge_records(wos_scopus_pairs); an
\* element of final_records is kept with the indices of the records it came from
MergeRecords ==
  /\ pc = "find"
  /\ wos_idx > Len(wos_records)
  /\ final_records' =
       final_records \o [k \in 1..Len(wos_records) |-> MergedWos(k)]
       \o ScopusOnlyFrom({wos_scopus_pairs[n][2] : n \in 1..Len(wos_scopus_pairs)}, 1)
  /\ pc' = "done"
  /\ UNCHANGED << reorder_vars, limiter_vars >>
  /\ UNCHANGED << institution_config, affil_str, author_blocks, idx, entries,
                  author_institutions, institution_to_authors, converted,
                  wos_records, scopus_records, wos_idx, wos_scopus_pairs, scopus_matched,
                  resolver_vars, extract_vars >>

NextMerge ==
  \/ MatchWosRecord
  \/ MergeRecords

MaxWos == 2
MaxScopus == 2

WosSamples ==
  { [DI |-> "10.1/a", TI |-> "Mapping the Science of Citation", PY |-> "2020",
     AU |-> "Smith, J\nKim, H", TC |-> "3"],
    [TI |-> "Graph Methods", PY |-> "2021", AU |-> "Lee, K", AB |-> "On graphs."] }

ScopusSamples ==
  { [DI |-> "10.1/A ", TI |-> "Mapping the science of citation.", PY |-> "2020",
     AU |-> "smith, j", TC |-> "12", AB |-> "We map."],
    [TI |-> "Mapping the Science of Citation: A Survey", PY |-> "2020", AU |-> "Smith, J"],
    [DI |-> "10.9/z", TI |-> "Graph methods", PY |-> "2021", TC |-> "1"],
    [DI |-> "10.7/q", TI |-> "Unique Paper", PY |-> "2019", AU |-> "Park, S"] }

\* the state after step 1 of run(): both files have been read
MergeCallWith(wos, scopus) ==
  /\ institution_config = DefaultConfig
  /\ affil_str = ""
  /\ pc = "find"
  /\ author_blocks = << >>
  /\ idx = 1
  /\ entries = << >>
  /\ author_institutions = << >>
  /\ institution_to_authors = << >>
  /\ converted = << >>
  /\ ResolverIdle
  /\ ExtractIdle
  /\ ReorderIdle
  /\ LimiterIdle
  /\ wos_records = wos
  /\ scopus_records = scopus
  /\ wos_idx = 1
  /\ wos_scopus_pairs = << >>
  /\ scopus_matched = {}
  /\ final_records = << >>

InitMerge ==
  \E wos \in SeqsUpTo(WosSamples, MaxWos), scopus \in SeqsUpTo(ScopusSamples, MaxScopus) :
    MergeCallWith(wos, scopus)

\* steps 2 and 3 of MergeDeduplicateTool.run
SpecMerge == InitMerge /\ [][NextMerge]_vars

(***************************************************************************)
(* C20                                                                     *)
(***************************************************************************)
\* the Scopus records present in final_records as records of their own
KeptApart ==
  {final_records[n].scopus_idx :
     n \in {n \in 1..Len(final_records) : final_records[n].wos_idx = 0}}

\* C20: after find_wos_scopus_duplicates and merge_records, no Scopus record that
\* is_duplicate matches with some WOS record is in final_records as a record of its
\* own: the Scopus records that duplicate a WOS record are deleted.
C20_NoDuplicateScopusKept ==
  pc = "done" =>
    \A j \in 1..Len(scopus_records) :
      (\E i \in 1..Len(wos_records) : is_duplicate(wos_records[i], scopus_records[j]))
        => j \notin KeptApart

(***************************************************************************)
(* C21                                                                     *)
(***************************************************************************)
PairedWos == {wos_scopus_pairs[n][1] : n \in 1..Len(wos_scopus_pairs)}

PairedScopus == {wos_scopus_pairs[n][2] : n \in 1..Len(wos_scopus_pairs)}

\* final_records[k] is WOS record k, merged with the Scopus record of its pair if any
IsWosSlot(k) ==
  /\ final_records[k].wos_idx = k
  /\ IF k \in PairedWos
     THEN \E n \in 1..Len(wos_scopus_pairs) :
            /\ wos_scopus_pairs[n][1] = k
            /\ final_records[k].scopus_idx = wos_scopus_pairs[n][2]
            /\ final_records[k].record =
                 merge_scopus_to_wos(wos_records[k], scopus_records[wos_scopus_pairs[n][2]])
     ELSE /\ final_records[k].scopus_idx = 0
          /\ final_records[k].record = wos_records[k]

\* final_records[k] is an unpaired Scopus record, as it was read
IsScopusSlot(k) ==
  /\ final_records[k].wos_idx = 0
  /\ final_records[k].scopus_idx \in (1..Len(scopus_records)) \ PairedScopus
  /\ final_records[k].record = scopus_records[final_records[k].scopus_idx]

\* C21: merge conservation. No two pairs share a WOS record or a Scopus record; after
\* merge_records, final_records is every WOS record once in input order, merged with
\* its pair if it has one, followed by every unpaired Scopus record once, so that
\* final_count = wos_count + scopus_count - scopus_duplicates.
C21_MergeConservation ==
  /\ \A m, n \in 1..Len(wos_scopus_pairs) :
       m # n => /\ wos_scopus_pairs[m][1] # wos_scopus_pairs[n][1]
                /\ wos_scopus_pairs[m][2] # wos_scopus_pairs[n][2]
  /\ pc = "done" =>
       /\ Len(final_records) =
            Len(wos_records) + Len(scopus_records) - Len(wos_scopus_pairs)
       /\ \A k \in 1..Len(wos_records) : IsWosSlot(k)
       /\ \A k \in (Len(wos_records) + 1)..Len(final_records) : IsScopusSlot(k)
       /\ \A j \in (1..Len(scopus_records)) \ PairedScopus :
            Cardinality({k \in (Len(wos_records) + 1)..Len(final_records) :
                           final_records[k].scopus_idx = j}) = 1

\* two WOS records, one of them merged with its pair, and a Scopus record of its own
C21_Witness ==
  /\ pc = "done"
  /\ Len(wos_records) = 2
  /\ Len(wos_scopus_pairs) = 1
  /\ Len(final_records) = 3
  /\ final_records[3].wos_idx = 0
  /\ \E k \in 1..2 : final_records[k].scopus_idx # 0 /\ final_records[k].record # wos_records[k]

(***************************************************************************)
(* C22                                                                     *)
(***************************************************************************)
\* C22: segmentation loses no token. For every parsed entry the blocks, one after
\* the other, are the address tokens of the entry (the fields from the third on),
\* whether the entry has no boundary, ends with one, or has tokens after its last.
C22_SegmentationLosesNoToken ==
  \A e \in Range(entries) : ConcatParts(e.institutions, 1) = e.remaining_parts

(***************************************************************************)
(* reorder_institution_parts as a state machine: the split, the tentative  *)
(* removal of the trailing geography, the classification loop, the join.   *)
(***************************************************************************)
\* the parts of "for part in parts" that reach the call of the resolver: the
\* "continue" after the secondary keyword test keeps the others away from it
ConsultsResolver(part_lower) ==
  /\ ~ContainsAny(part_lower, secondary_keywords_lower)
  /\ Contains(part_lower, "school") \/ Contains(part_lower, "college")

\* "if len(parts) < 2: return institution"
ReorderReturnAsIs ==
  /\ pc = "reorder"
  /\ Len(SplitStrip(institution_str, ",")) < 2
  /\ reordered_str' = institution_str
  /\ pc' = "done"
  /\ UNCHANGED << institution_str, kept_parts, primary_list, secondary_list, geo_list,
                  resolver_asked, limiter_vars >>
  /\ UNCHANGED << institution_config, affil_str, author_blocks, idx, entries,
                  author_institutions, institution_to_authors, converted,
                  resolver_vars, extract_vars, merge_vars >>

\* the split at ',' and the removal of the last one or two geographic parts
ReorderSplitGeo ==
  /\ pc = "reorder"
  /\ Len(SplitStrip(institution_str, ",")) >= 2
  /\ kept_parts' = SplitGeo(SplitStrip(institution_str, ",")).parts
  /\ geo_list' = SplitGeo(SplitStrip(institution_str, ",")).geo_parts
  /\ pc' = "classify"
  /\ UNCHANGED << institution_str, primary_list, secondary_list, resolver_asked,
                  reordered_str, limiter_vars >>
  /\ UNCHANGED << institution_config, affil_str, author_blocks, idx, entries,
                  author_institutions, institution_to_authors, converted,
                  resolver_vars, extract_vars, merge_vars >>

\* the loop "for part in parts"
ClassifyParts ==
  /\ pc = "classify"
  /\ primary_list' = ClassifyFrom(kept_parts, 1, << >>, << >>).primary_parts
  /\ secondary_list' = ClassifyFrom(kept_parts, 1, << >>, << >>).secondary_parts
  /\ resolver_asked' = SelectSeq(kept_parts, LAMBDA part : ConsultsResolver(Lower(part)))
  /\ pc' = "join"
  /\ UNCHANGED << institution_str, kept_parts, geo_list, reordered_str, limiter_vars >>
  /\ UNCHANGED << institution_config, affil_str, author_blocks, idx, entries,
                  author_institutions, institution_to_authors, converted,
                  resolver_vars, extract_vars, merge_vars >>

\* "reordered = primary_parts + secondary_parts + geo_parts" and the return
ReorderJoin ==
  /\ pc = "join"
  /\ reordered_str' = Join(primary_list \o secondary_list \o geo_list, ", ")
  /\ pc' = "done"
  /\ UNCHANGED << institution_str, kept_parts, primary_list, secondary_list, geo_list,
                  resolver_asked, limiter_vars >>
  /\ UNCHANGED << institution_config, affil_str, author_blocks, idx, entries,
                  author_institutions, institution_to_authors, converted,
                  resolver_vars, extract_vars, merge_vars >>

NextReorder ==
  \/ ReorderReturnAsIs
  \/ ReorderSplitGeo
  \/ ClassifyParts
  \/ ReorderJoin

MaxTokens == 2

ReorderTokens ==
  { "Department of Oncology",
    "Medical School Department of Surgery",
    "University Service Center",
    "Seoul National University",
    "Harvard University Graduate School of Design",
    "Boston College",
    "College of Arts",
    "Bell Labs" }

ReorderEndings == { << >>, << "Boston", "USA" >> }

\* the call reorder_institution_parts(institution)
ReorderCall(institution) ==
  /\ institution_config = DefaultConfig
  /\ affil_str = ""
  /\ pc = "reorder"
  /\ author_blocks = << >>
  /\ idx = 1
  /\ entries = << >>
  /\ author_institutions = << >>
  /\ institution_to_authors = << >>
  /\ converted = << >>
  /\ ResolverIdle
  /\ ExtractIdle
  /\ MergeIdle
  /\ LimiterIdle
  /\ institution_str = institution
  /\ kept_parts = << >>
  /\ primary_list = << >>
  /\ secondary_list = << >>
  /\ geo_list = << >>
  /\ resolver_asked = << >>
  /\ reordered_str = ""

InitReorder ==
  \E tokens \in SeqsUpTo(ReorderTokens, MaxTokens), ending \in ReorderEndings :
    ReorderCall(Join(tokens \o ending, ", "))

SpecReorder == InitReorder /\ [][NextReorder]_vars

(***************************************************************************)
(* C23                                                                     *)
(***************************************************************************)
SecondaryWord(part) == ContainsAny(Lower(part), secondary_keywords_lower)

PrimaryWord(part) == ContainsAny(Lower(part), primary_keywords_lower)

CollegeSchoolWord(part) == Contains(Lower(part), "school") \/ Contains(Lower(part), "college")

Classified == pc \in {"join", "done"} /\ kept_parts # << >>

\* C23 as stated: every non-geography token with no Secondary keyword and with a
\* Primary keyword is classified Primary, and the resolver decides only tokens with a
\* college/school term and no Primary keyword.
C23_PrimaryKeywordBeforeResolver ==
  Classified =>
    /\ \A k \in 1..Len(kept_parts) :
         ~SecondaryWord(kept_parts[k]) /\ PrimaryWord(kept_parts[k])
           => kept_parts[k] \in Range(primary_list)
    /\ \A part \in Range(resolver_asked) : CollegeSchoolWord(part) /\ ~PrimaryWord(part)

\* C23, amended: a non-geography token with no Secondary keyword and with a
\* college/school term is decided by the resolver, whether or not it contains a Primary
\* keyword: it is Primary exactly when the resolver answers true. A token with a
\* Primary keyword, no Secondary keyword and no college/school term is Primary.
C23_ResolverBeforePrimaryKeyword ==
  Classified =>
    /\ \A k \in 1..Len(kept_parts) :
         /\ ~SecondaryWord(kept_parts[k])
         /\ PrimaryWord(kept_parts[k])
         /\ ~CollegeSchoolWord(kept_parts[k])
         => kept_parts[k] \in Range(primary_list)
    /\ Range(resolver_asked) =
         {kept_parts[k] : k \in {k \in 1..Len(kept_parts) :
            ~SecondaryWord(kept_parts[k]) /\ CollegeSchoolWord(kept_parts[k])}}
    /\ \A part \in Range(resolver_asked) :
         part \in Range(primary_list)
           <=> is_independent_college_or_school(part, kept_parts)

\* a token with a Primary keyword and the word School went to the resolver and was
\* classified Secondary
C23_Witness ==
  /\ pc = "done"
  /\ \E part \in Range(resolver_asked) :
       /\ PrimaryWord(part)
       /\ part \in Range(secondary_list)
       /\ part \notin Range(primary_list)
  /\ \E part \in Range(primary_list) : PrimaryWord(part) /\ ~CollegeSchoolWord(part)

(***************************************************************************)
(* C24                                                                     *)
(***************************************************************************)
\* C24: every non-geography token that contains a Secondary-unit keyword is
\* classified Secondary, also when it contains a Primary keyword or a college/school
\* term as well, and the resolver is not asked about it.
C24_SecondaryKeywordFirst ==
  Classified =>
    \A k \in 1..Len(kept_parts) :
      SecondaryWord(kept_parts[k]) =>
        /\ kept_parts[k] \in Range(secondary_list)
        /\ kept_parts[k] \notin Range(primary_list)
        /\ kept_parts[k] \notin Range(resolver_asked)

\* a token with a Secondary keyword and a Primary keyword, and one with a Secondary
\* keyword and the word School, have been classified Secondary
C24_Witness ==
  /\ pc = "done"
  /\ \E part \in Range(secondary_list) : SecondaryWord(part) /\ PrimaryWord(part)
  /\ \E part \in Range(secondary_list) : SecondaryWord(part) /\ CollegeSchoolWord(part)

(***************************************************************************)
(* C25                                                                     *)
(***************************************************************************)
\* the number of positions of seq that hold x
Occurrences(seq, x) == Cardinality({k \in 1..Len(seq) : seq[k] = x})

\* C25: every non-geography token with no Secondary keyword, no Primary keyword and no
\* college/school term is classified Primary, and no token is discarded: every part
\* of the input is a part of the returned string, as many times as in the input.
C25_FallbackPrimaryNothingDiscarded ==
  /\ Classified =>
       /\ \A k \in 1..Len(kept_parts) :
            /\ ~SecondaryWord(kept_parts[k])
            /\ ~PrimaryWord(kept_parts[k])
            /\ ~CollegeSchoolWord(kept_parts[k])
            => kept_parts[k] \in Range(primary_list) /\ kept_parts[k] \notin Range(secondary_list)
       /\ Len(primary_list) + Len(secondary_list) = Len(kept_parts)
  /\ pc = "done" =>
       \A part \in Range(SplitStrip(institution_str, ",")) :
         Occurrences(SplitStrip(reordered_str, ","), part)
           = Occurrences(SplitStrip(institution_str, ","), part)

\* a token without any keyword stood before the geography and is in the Primary list
C25_Witness ==
  /\ pc = "done"
  /\ geo_list # << >>
  /\ \E part \in Range(primary_list) :
       ~SecondaryWord(part) /\ ~PrimaryWord(part) /\ ~CollegeSchoolWord(part)
  /\ secondary_list # << >>

(***************************************************************************)
(* C26                                                                     *)
(***************************************************************************)
\* the name holds "of" as a word of its own
HasWordOf == \E word \in Range(Split(Lower(arg_name), " ")) : word = "of"

\* C26: a name of at least two words that contains College, does not hold the word
\* "of", is not whitelisted, has no university sibling and no professional qualifier
\* is Primary, whatever letters its other words are made of; a College or School name
\* that none of the rules reaches is Secondary.
C26_CollegeWithoutOfPrimary ==
  pc = "done" /\ ~Whitelisted /\ ~UniversitySibling /\ ~ProfessionalQualifier =>
    IF Contains(Lower(arg_name), "college") /\ ~HasWordOf /\ WordCount(arg_name) >= 2
    THEN is_independent
    ELSE ~is_independent

(***************************************************************************)
(* C27                                                                     *)
(***************************************************************************)
\* the words of a string: the runs between spaces of its components
WordsOf(s) ==
  UNION {Range(Split(component, " ")) : component \in Range(SplitStrip(s, ","))}

\* C27: after abbreviate_institution no word of the output is one of the filler words
\* of, for, the, in, at, on, in any letter case, wherever the word stood in the input.
C27_NoFillerWordLeft ==
  \A e \in Range(entries) : \A k \in 1..Len(e.institutions) :
    \A word \in WordsOf(e.institutions[k].inst_short) :
      Lower(word) \notin Range(prepositions)

(***************************************************************************)
(* C28                                                                     *)
(***************************************************************************)
\* the standard name the mapping gives for a component that is one of its keys
MappedName(component) ==
  country_mapping[CHOOSE k \in 1..Len(country_mapping) : country_mapping[k][1] = component][2]

\* C28: standardize_country is a literal lookup on the last component: the last
\* component is replaced by the mapped name exactly when it is a key of the mapping,
\* any other last component (a standard name included) and every component before
\* the last are returned as they were.
C28_LiteralLookupOnLastComponent ==
  \A b \in AllBlocks :
    LET given    == SplitStrip(b.inst_short, ",")
        returned == SplitStrip(b.inst_standard, ",")
        n        == Len(given)
    IN /\ Len(returned) = n
       /\ \A k \in 1..(n - 1) : returned[k] = given[k]
       /\ n >= 1 =>
            returned[n] =
              IF \E k \in 1..Len(country_mapping) : country_mapping[k][1] = given[n]
              THEN MappedName(given[n])
              ELSE given[n]

(***************************************************************************)
(* C29                                                                     *)
(***************************************************************************)
\* the AddressBlocks of the record, as parse_affiliations cuts them
BlocksOfRecord(input) ==
  UNION {Range(ParseEntry(SplitStrip(entry, ",")).institutions) :
           entry \in {entry \in Range(SplitStrip(input, ";")) :
                        Len(SplitStrip(entry, ",")) >= 3}}

\* the parts reorder_institution_parts classifies Primary in a block of two or more parts
PrimaryInBlock(inst_parts) ==
  Range(ClassifyFrom(SplitGeo(inst_parts).parts, 1, << >>, << >>).primary_parts)

\* C29: the extractor and the classifier agree on every College/School token: the
\* token is extracted as a primary institution if and only if reorder_institution_parts
\* classifies it Primary in its block, also when the author has several institutions.
C29_ExtractorAgreesWithClassifier ==
  pc = "done" =>
    \A b \in BlocksOfRecord(affil_str) :
      Len(b.inst_parts) >= 2 =>
        \A token \in Range(b.inst_parts) :
          CollegeSchoolWord(token) =>
            (clean_institution_name(token) \in primary_institutions
               <=> token \in PrimaryInBlock(b.inst_parts))

(***************************************************************************)
(* rate_limiter.py: RateLimiter.acquire called by several threads.  Time   *)
(* is counted in ticks; a thread takes one step at a time and the clock    *)
(* may advance between any two steps.                                      *)
(***************************************************************************)
NumThreads == 2
MaxTime == 6

\* RateLimiter(min_interval=...), in ticks
min_interval == 2

Threads == 1..NumThreads

\* the limiter after __init__, every thread about to call acquire; time.time() is
\* far from the initial last_request_time of 0
InitLimiter ==
  /\ institution_config = DefaultConfig
  /\ affil_str = ""
  /\ pc = "threads"
  /\ author_blocks = << >>
  /\ idx = 1
  /\ entries = << >>
  /\ author_institutions = << >>
  /\ institution_to_authors = << >>
  /\ converted = << >>
  /\ ResolverIdle
  /\ ExtractIdle
  /\ MergeIdle
  /\ ReorderIdle
  /\ last_request_time = 0
  /\ lock = 0
  /\ clock = min_interval
  /\ thread_pc = [t \in Threads |-> "call"]
  /\ current_time = [t \in Threads |-> 0]
  /\ wake_time = [t \in Threads |-> 0]
  /\ grants = << >>
  /\ returns = << >>

\* what acquire does not touch
other_vars == << institution_config, affil_str, pc, author_blocks, idx, entries,
                author_institutions, institution_to_authors, converted,
                resolver_vars, extract_vars, merge_vars, reorder_vars >>

\* "with self.lock" entered without waiting for the lock
AcquireLock_NoExclusion(t) ==
  /\ thread_pc[t] = "call"
  /\ lock' = t
  /\ thread_pc' = [thread_pc EXCEPT ![t] = "locked"]
  /\ UNCHANGED << last_request_time, clock, current_time, wake_time, grants, returns >>
  /\ UNCHANGED other_vars

\* "with self.lock": the thread takes the lock when it is free
AcquireLock(t) ==
  /\ thread_pc[t] = "call"
  /\ lock = 0
  /\ lock' = t
  /\ thread_pc' = [thread_pc EXCEPT ![t] = "locked"]
  /\ UNCHANGED << last_request_time, clock, current_time, wake_time, grants, returns >>
  /\ UNCHANGED other_vars

\* current_time = time.time(); the test of time_since_last_request and wait_time
ReadTime(t) ==
  /\ thread_pc[t] = "locked"
  /\ current_time' = [current_time EXCEPT ![t] = clock]
  /\ IF clock - last_request_time < min_interval
     THEN /\ wake_time' = [wake_time EXCEPT
                             ![t] = clock + (min_interval - (clock - last_request_time))]
          /\ thread_pc' = [thread_pc EXCEPT ![t] = "sleeping"]
     ELSE /\ thread_pc' = [thread_pc EXCEPT ![t] = "stamp"]
          /\ UNCHANGED wake_time
  /\ UNCHANGED << last_request_time, lock, clock, grants, returns >>
  /\ UNCHANGED other_vars

\* time.sleep(wait_time) returns, not before wait_time has passed
WakeUp(t) ==
  /\ thread_pc[t] = "sleeping"
  /\ clock >= wake_time[t]
  /\ thread_pc' = [thread_pc EXCEPT ![t] = "stamp"]
  /\ UNCHANGED << last_request_time, lock, clock, current_time, wake_time, grants, returns >>
  /\ UNCHANGED other_vars

\* self.last_request_time = time.time()
StampTime(t) ==
  /\ thread_pc[t] = "stamp"
  /\ last_request_time' = clock
  /\ grants' = Append(grants, [thread |-> t, time |-> clock])
  /\ thread_pc' = [thread_pc EXCEPT ![t] = "unlock"]
  /\ UNCHANGED << lock, clock, current_time, wake_time, returns >>
  /\ UNCHANGED other_vars

\* the end of the with block: the lock is released
ReleaseLock(t) ==
  /\ thread_pc[t] = "unlock"
  /\ lock' = 0
  /\ thread_pc' = [thread_pc EXCEPT ![t] = "return"]
  /\ UNCHANGED << last_request_time, clock, current_time, wake_time, grants, returns >>
  /\ UNCHANGED other_vars

\* acquire returns to its caller, which will call it again
ReturnFromAcquire(t) ==
  /\ thread_pc[t] = "return"
  /\ returns' = Append(returns, [thread |-> t, time |-> clock])
  /\ thread_pc' = [thread_pc EXCEPT ![t] = "call"]
  /\ UNCHANGED << last_request_time, lock, clock, current_time, wake_time, grants >>
  /\ UNCHANGED other_vars

\* time passes
Tick ==
  /\ clock < MaxTime
  /\ clock' = clock + 1
  /\ UNCHANGED << last_request_time, lock, thread_pc, current_time, wake_time,
                  grants, returns >>
  /\ UNCHANGED other_vars

NextLimiter ==
  \/ \E t \in Threads : AcquireLock(t)
  \/ \E t \in Threads : ReadTime(t)
  \/ \E t \in Threads : WakeUp(t)
  \/ \E t \in Threads : StampTime(t)
  \/ \E t \in Threads : ReleaseLock(t)
  \/ \E t \in Threads : ReturnFromAcquire(t)
  \/ Tick

SpecLimiter == InitLimiter /\ [][NextLimiter]_vars

(***************************************************************************)
(* C30                                                                     *)
(***************************************************************************)
\* the entries of a history (grants or returns) that belong to thread t
ByThread(history, t) == SelectSeq(history, LAMBDA h : h.thread = t)

\* the threads inside the with block
InsideLock == {t \in Threads : thread_pc[t] \in {"locked", "sleeping", "stamp", "unlock"}}

\* C30 as stated: any two successive returns of acquire are at least min_interval apart.
C30_ReturnsMinIntervalApart ==
  \A i \in 1..(Len(returns) - 1) : returns[i + 1].time - returns[i].time >= min_interval

\* C30, amended: the grants are serialized: at most one thread is inside the with
\* block and it holds the lock; any two successive values assigned to
\* last_request_time are at least min_interval apart, so no two grants fall in one
\* interval; last_request_time is the latest of them and never decreases; every call
\* returns after its own grant, and no call returns without one or with two.
C30_GrantsMinIntervalApart ==
  /\ Cardinality(InsideLock) <= 1
  /\ \A t \in InsideLock : lock = t
  /\ \A i \in 1..(Len(grants) - 1) : grants[i + 1].time - grants[i].time >= min_interval
  /\ last_request_time = IF grants = << >> THEN 0 ELSE grants[Len(grants)].time
  /\ last_request_time <= clock
  /\ \A t \in Threads :
       /\ Len(ByThread(grants, t)) - Len(ByThread(returns, t))
            = IF thread_pc[t] \in {"unlock", "return"} THEN 1 ELSE 0
       /\ \A i \in 1..Len(ByThread(returns, t)) :
            ByThread(returns, t)[i].time >= ByThread(grants, t)[i].time

\* two threads have been granted one after the other, the second after a sleep, and
\* both have returned
C30_Witness ==
  /\ Len(grants) >= 2
  /\ grants[1].thread # grants[2].thread
  /\ grants[2].time - grants[1].time = min_interval
  /\ Len(returns) >= 2
  /\ \E t \in Threads : wake_time[t] > 0

=============================================================================
